---- MODULE Spec2Model ----
(***************************************************************************)
(* Notion-as-CMS: the block renderer (blocksToHtml / blockToHtml /         *)
(* richTextToHtml) of the page-detail, homepage, homepage-sections and     *)
(* blog-detail functions, and the href sanitizer.                          *)
(*                                                                         *)
(* Strings are sequences of tokens.  A character of source text is a       *)
(* one-character string; a piece of markup that the code writes as one     *)
(* literal is one token.  Concatenation of strings is \o.                  *)
(***************************************************************************)
EXTENDS Integers, Sequences, FiniteSets, TLC

VARIABLES
    variant,      \* which function renders: "page", "home", "sections", "blog"
    roots,        \* roots[p]: the block ids handed to render call p
    failing,      \* ids whose request to the Block Source is rejected
    active,       \* the render calls that are invoked in this behaviour
    stack,        \* stack[p]: the activation records of render call p
    html,         \* the `html` local of each blocksToHtml activation
    listContext,  \* the `listContext` local of each blocksToHtml activation
    result,       \* result[p]: Pending, Threw or the returned HTML
    running,      \* the call that holds the event loop (0: none)
    sanIn,        \* sanitizeHref: the argument
    sanOut,       \* sanitizeHref: the returned value
    sanPc,        \* sanitizeHref: "idle", "call" or "done"
    rtIn,         \* richTextToHtml: the rich text array
    rtOut,        \* richTextToHtml: the returned string
    rtPc,         \* richTextToHtml: "idle", "call" or "done"
    blkIn,        \* blockToHtml on its own: the block
    blkOut,       \* blockToHtml on its own: the returned string
    blkPc,        \* blockToHtml on its own: "idle", "call" or "done"
    gabLen,       \* getAllBlocks: allBlocks.length
    gabHasMore,   \* getAllBlocks: hasMore
    gabCursor,    \* getAllBlocks: nextCursor
    gabPc,        \* getAllBlocks: "idle", "loop" or "done"
    prvIn,        \* a listing endpoint: the request, the environment, the pages
    prvOut,       \* a listing endpoint: the response
    prvPc,        \* a listing endpoint: "idle", "call" or "done"
    sbmIn,        \* submit-to-notion: the request and the environment
    sbmOut,       \* submit-to-notion: the response, and whether a page was created
    sbmPc,        \* submit-to-notion: "idle", "call" or "done"
    mobileNavInitialized, \* utils.js: the flag of initMobileNav
    hasToggle,    \* the document has a .mobile-menu-toggle
    hasNavLinks,  \* the document has a .nav-links
    toggleClick,  \* number of click listeners on the toggle
    docKeydown,   \* number of keydown listeners on the document
    docClick,     \* number of click listeners on the document
    navOpen,      \* .nav-links has the class nav-open
    ariaExpanded, \* aria-expanded of the toggle
    navRebuilt,   \* initDynamicNav has replaced the content of .nav-links
    dynPending,   \* calls of initDynamicNav that await the navigation function
    navCalls,     \* number of calls made from the page
    navFocus,     \* the element that has the focus: "toggle" or "other"
    fnIn,         \* a function on its own: the arguments
    fnOut,        \* a function on its own: the value
    fnPc          \* a function on its own: "idle", "call" or "done"

vars == <<variant, roots, failing, active, stack, html, listContext, result,
          running, sanIn, sanOut, sanPc, rtIn, rtOut, rtPc, blkIn, blkOut,
          blkPc, gabLen, gabHasMore, gabCursor, gabPc, prvIn, prvOut, prvPc,
          sbmIn, sbmOut, sbmPc, mobileNavInitialized, hasToggle, hasNavLinks,
          toggleClick, docKeydown, docClick, navOpen, ariaExpanded, navRebuilt,
          dynPending, navCalls, navFocus,
          fnIn, fnOut, fnPc>>

renderVars == <<variant, roots, failing, active, stack, html, listContext,
                result, running>>

sanVars == <<sanIn, sanOut, sanPc>>

rtVars == <<rtIn, rtOut, rtPc>>

blkVars == <<blkIn, blkOut, blkPc>>

gabVars == <<gabLen, gabHasMore, gabCursor, gabPc>>

prvVars == <<prvIn, prvOut, prvPc>>

sbmVars == <<sbmIn, sbmOut, sbmPc>>

\* What initMobileNav writes.
listenerVars == <<mobileNavInitialized, toggleClick, docKeydown, docClick>>

navVars == <<listenerVars, hasToggle, hasNavLinks, navOpen, ariaExpanded,
             navRebuilt, dynPending, navCalls, navFocus>>

fnVars == <<fnIn, fnOut, fnPc>>

\* What richTextToHtml and blockToHtml on their own do not touch.
moreVars == <<gabVars, prvVars, sbmVars, navVars, fnVars>>

\* What the block renderer and the sanitizer do not touch.
restVars == <<rtVars, blkVars, moreVars>>

\* What getAllBlocks does not touch.
notGab ==
    <<renderVars, sanVars, rtVars, blkVars, prvVars, sbmVars, navVars, fnVars>>

\* What the listing endpoints do not touch.
notPrv ==
    <<renderVars, sanVars, rtVars, blkVars, gabVars, sbmVars, navVars, fnVars>>

\* What submit-to-notion does not touch.
notSbm ==
    <<renderVars, sanVars, rtVars, blkVars, gabVars, prvVars, navVars, fnVars>>

\* What the navigation of the browser does not touch.
notNav ==
    <<renderVars, sanVars, rtVars, blkVars, gabVars, prvVars, sbmVars, fnVars>>

\* What a function applied on its own does not touch.
notFn ==
    <<renderVars, sanVars, rtVars, blkVars, gabVars, prvVars, sbmVars, navVars>>

(***************************************************************************)
(* Values                                                                  *)
(***************************************************************************)
\* JavaScript null / undefined.  No string is this value: a string is a
\* sequence of one-character tokens and markup literals.
Null == <<"null">>

\* A rejected promise that nobody caught.
Threw == <<"threw">>

\* A render call that has not returned yet.
Pending == <<"pending">>

Range(s) == {s[i] : i \in 1..Len(s)}

RECURSIVE Flatten(_)
Flatten(ss) == IF ss = <<>> THEN <<>> ELSE Head(ss) \o Flatten(Tail(ss))

StartsWith(s, prefix) ==
    /\ Len(s) >= Len(prefix)
    /\ SubSeq(s, 1, Len(prefix)) = prefix

Includes(s, c) == \E i \in 1..Len(s) : s[i] = c

Whitespace == {" ", "\t", "\n"}

LowerMap ==
    "A" :> "a" @@ "B" :> "b" @@ "C" :> "c" @@ "D" :> "d" @@ "E" :> "e" @@
    "F" :> "f" @@ "G" :> "g" @@ "H" :> "h" @@ "I" :> "i" @@ "J" :> "j" @@
    "K" :> "k" @@ "L" :> "l" @@ "M" :> "m" @@ "N" :> "n" @@ "O" :> "o" @@
    "P" :> "p" @@ "Q" :> "q" @@ "R" :> "r" @@ "S" :> "s" @@ "T" :> "t" @@
    "U" :> "u" @@ "V" :> "v" @@ "W" :> "w" @@ "X" :> "x" @@ "Y" :> "y" @@
    "Z" :> "z"

\* String.prototype.toLowerCase
toLowerCase(s) ==
    [i \in 1..Len(s) |-> IF s[i] \in DOMAIN LowerMap THEN LowerMap[s[i]] ELSE s[i]]

RECURSIVE TrimStart(_)
TrimStart(s) ==
    IF s # <<>> /\ Head(s) \in Whitespace THEN TrimStart(Tail(s)) ELSE s

RECURSIVE TrimEnd(_)
TrimEnd(s) ==
    IF s # <<>> /\ s[Len(s)] \in Whitespace
    THEN TrimEnd(SubSeq(s, 1, Len(s) - 1))
    ELSE s

\* String.prototype.trim
trim(s) == TrimEnd(TrimStart(s))

(***************************************************************************)
(* escapeHtml: each of & < > " ' becomes its entity, every other character *)
(* is kept.                                                                *)
(***************************************************************************)
EntityMap ==
    "&" :> "&amp;" @@ "<" :> "&lt;" @@ ">" :> "&gt;" @@ "\"" :> "&quot;" @@
    "'" :> "&#039;"

escapeHtml(text) ==
    IF text = Null \/ text = <<>> THEN <<>>
    ELSE [i \in 1..Len(text) |->
            IF text[i] \in DOMAIN EntityMap THEN EntityMap[text[i]] ELSE text[i]]

(***************************************************************************)
(* sanitizeHref (homepage.js and the homepage-sections function hold the   *)
(* same text).                                                             *)
(***************************************************************************)
sanitizeHref(href) ==
    IF href = Null \/ href = <<>> THEN Null
    ELSE LET trimmed == toLowerCase(trim(href)) IN
      IF StartsWith(trimmed, <<"j", "a", "v", "a", "s", "c", "r", "i", "p", "t", ":">>)
        THEN Null
      ELSE IF /\ StartsWith(trimmed, <<"d", "a", "t", "a", ":">>)
              /\ ~StartsWith(trimmed, <<"d", "a", "t", "a", ":", "i", "m", "a", "g", "e", "/">>)
        THEN Null
      ELSE IF StartsWith(trimmed, <<"d", "a", "t", "a", ":", "i", "m", "a", "g", "e", "/", "s", "v", "g">>)
        THEN Null
      ELSE IF \/ StartsWith(trimmed, <<"h", "t", "t", "p", ":", "/", "/">>)
              \/ StartsWith(trimmed, <<"h", "t", "t", "p", "s", ":", "/", "/">>)
              \/ StartsWith(trimmed, <<"m", "a", "i", "l", "t", "o", ":">>)
              \/ StartsWith(trimmed, <<"t", "e", "l", ":">>)
              \/ StartsWith(trimmed, <<"/">>)
              \/ StartsWith(trimmed, <<"#">>)
              \/ ~Includes(trimmed, ":")
        THEN href
      ELSE Null

(***************************************************************************)
(* Slugs: s.toLowerCase().replace(/[^a-z0-9]+/g, '-')                      *)
(*         .replace(/^-+|-+$/g, '')                                        *)
(***************************************************************************)
AlphaNum ==
    {"a", "b", "c", "d", "e", "f", "g", "h", "i", "j", "k", "l", "m", "n",
     "o", "p", "q", "r", "s", "t", "u", "v", "w", "x", "y", "z",
     "0", "1", "2", "3", "4", "5", "6", "7", "8", "9"}

\* replace(/[^a-z0-9]+/g, '-'): every maximal run of other characters
\* becomes one hyphen.
RECURSIVE hyphenateRuns(_)
hyphenateRuns(s) ==
    IF s = <<>> THEN <<>>
    ELSE IF Head(s) \in AlphaNum THEN <<Head(s)>> \o hyphenateRuns(Tail(s))
    ELSE IF Len(s) > 1 /\ s[2] \notin AlphaNum THEN hyphenateRuns(Tail(s))
    ELSE <<"-">> \o hyphenateRuns(Tail(s))

RECURSIVE dropLeadingHyphens(_)
dropLeadingHyphens(s) ==
    IF s # <<>> /\ Head(s) = "-" THEN dropLeadingHyphens(Tail(s)) ELSE s

RECURSIVE dropTrailingHyphens(_)
dropTrailingHyphens(s) ==
    IF s # <<>> /\ s[Len(s)] = "-"
    THEN dropTrailingHyphens(SubSeq(s, 1, Len(s) - 1))
    ELSE s

slugify(s) ==
    dropTrailingHyphens(dropLeadingHyphens(hyphenateRuns(toLowerCase(s))))

(***************************************************************************)
(* The characters of the markup literals.  Where the code runs a string    *)
(* function (a regular expression, escapeHtml) over HTML it has built, the *)
(* function sees the characters of the markup, not the tokens.             *)
(***************************************************************************)
Chars ==
    "&amp;" :> <<"&", "a", "m", "p", ";">> @@
    "&lt;" :> <<"&", "l", "t", ";">> @@
    "&gt;" :> <<"&", "g", "t", ";">> @@
    "&quot;" :> <<"&", "q", "u", "o", "t", ";">> @@
    "&#039;" :> <<"&", "#", "0", "3", "9", ";">> @@
    "<strong>" :> <<"<", "s", "t", "r", "o", "n", "g", ">">> @@
    "</strong>" :> <<"<", "/", "s", "t", "r", "o", "n", "g", ">">> @@
    "<em>" :> <<"<", "e", "m", ">">> @@
    "</em>" :> <<"<", "/", "e", "m", ">">> @@
    "<del>" :> <<"<", "d", "e", "l", ">">> @@
    "</del>" :> <<"<", "/", "d", "e", "l", ">">> @@
    "<u>" :> <<"<", "u", ">">> @@
    "</u>" :> <<"<", "/", "u", ">">> @@
    "<code class=\"notion-inline-code\">" :> <<"<", "c", "o", "d", "e", " ",
        "c", "l", "a", "s", "s", "=", "\"", "n", "o", "t", "i", "o", "n",
        "-", "i", "n", "l", "i", "n", "e", "-", "c", "o", "d", "e", "\"",
        ">">> @@
    "<code>" :> <<"<", "c", "o", "d", "e", ">">> @@
    "</code>" :> <<"<", "/", "c", "o", "d", "e", ">">> @@
    "</span>" :> <<"<", "/", "s", "p", "a", "n", ">">> @@
    "</a>" :> <<"<", "/", "a", ">">> @@
    "<span class=\"notion-bg-" :> <<"<", "s", "p", "a", "n", " ", "c", "l",
        "a", "s", "s", "=", "\"", "n", "o", "t", "i", "o", "n", "-", "b",
        "g", "-">> @@
    "<span class=\"notion-color-" :> <<"<", "s", "p", "a", "n", " ", "c",
        "l", "a", "s", "s", "=", "\"", "n", "o", "t", "i", "o", "n", "-",
        "c", "o", "l", "o", "r", "-">> @@
    "\">" :> <<"\"", ">">> @@
    "<a href=\"" :> <<"<", "a", " ", "h", "r", "e", "f", "=", "\"">> @@
    "\" target=\"_blank\" rel=\"noopener noreferrer\">" :> <<"\"", " ", "t",
        "a", "r", "g", "e", "t", "=", "\"", "_", "b", "l", "a", "n", "k",
        "\"", " ", "r", "e", "l", "=", "\"", "n", "o", "o", "p", "e", "n",
        "e", "r", " ", "n", "o", "r", "e", "f", "e", "r", "r", "e", "r",
        "\"", ">">> @@
    "<span class=\"notion-mention notion-mention--user\">@" :> <<"<", "s",
        "p", "a", "n", " ", "c", "l", "a", "s", "s", "=", "\"", "n", "o",
        "t", "i", "o", "n", "-", "m", "e", "n", "t", "i", "o", "n", " ",
        "n", "o", "t", "i", "o", "n", "-", "m", "e", "n", "t", "i", "o",
        "n", "-", "-", "u", "s", "e", "r", "\"", ">", "@">> @@
    "<span class=\"notion-mention notion-mention--date\">" :> <<"<", "s",
        "p", "a", "n", " ", "c", "l", "a", "s", "s", "=", "\"", "n", "o",
        "t", "i", "o", "n", "-", "m", "e", "n", "t", "i", "o", "n", " ",
        "n", "o", "t", "i", "o", "n", "-", "m", "e", "n", "t", "i", "o",
        "n", "-", "-", "d", "a", "t", "e", "\"", ">">> @@
    "<a href=\"/page/" :> <<"<", "a", " ", "h", "r", "e", "f", "=", "\"",
        "/", "p", "a", "g", "e", "/">> @@
    "\" class=\"notion-mention notion-mention--page\">" :> <<"\"", " ", "c",
        "l", "a", "s", "s", "=", "\"", "n", "o", "t", "i", "o", "n", "-",
        "m", "e", "n", "t", "i", "o", "n", " ", "n", "o", "t", "i", "o",
        "n", "-", "m", "e", "n", "t", "i", "o", "n", "-", "-", "p", "a",
        "g", "e", "\"", ">">> @@
    "<span class=\"notion-equation-inline\" data-equation=\"" :> <<"<", "s",
        "p", "a", "n", " ", "c", "l", "a", "s", "s", "=", "\"", "n", "o",
        "t", "i", "o", "n", "-", "e", "q", "u", "a", "t", "i", "o", "n",
        "-", "i", "n", "l", "i", "n", "e", "\"", " ", "d", "a", "t", "a",
        "-", "e", "q", "u", "a", "t", "i", "o", "n", "=", "\"">> @@
    "red" :> <<"r", "e", "d">> @@
    "blue" :> <<"b", "l", "u", "e">> @@
    "_background" :> <<"_", "b", "a", "c", "k", "g", "r", "o", "u", "n", "d">> @@
    " U+2192 " :> <<" ", "U+2192", " ">>

\* The string as its characters.
Explode(s) ==
    Flatten([i \in 1..Len(s) |-> IF s[i] \in DOMAIN Chars THEN Chars[s[i]] ELSE <<s[i]>>])

RECURSIVE AfterFirst(_, _)
AfterFirst(s, c) ==
    IF s = <<>> THEN <<>>
    ELSE IF Head(s) = c THEN Tail(s)
    ELSE AfterFirst(Tail(s), c)

\* html.replace(/<[^>]*>/g, ''), on the characters of html
RECURSIVE stripTags(_)
stripTags(s) ==
    IF s = <<>> THEN <<>>
    ELSE IF Head(s) = "<" /\ Includes(Tail(s), ">")
      THEN stripTags(AfterFirst(Tail(s), ">"))
    ELSE <<Head(s)>> \o stripTags(Tail(s))

stripHtml(markup) == stripTags(Explode(markup))

(***************************************************************************)
(* Rich text.  A span is a record                                          *)
(*   plain_text  the characters                                            *)
(*   bold, italic, strikethrough, underline, code   the annotations        *)
(*   color       <<name>> or <<name, "_background">>; <<"default">>        *)
(*   href        Null or the characters of the URL                         *)
(*   type        "text", "mention" or "equation"                           *)
(*   mention     "user", "date", "page" (read when type = "mention")       *)
(*   date_start, date_end   the dates of a date mention (<<>>: absent)     *)
(*   expression  the equation source (read when type = "equation")         *)
(***************************************************************************)
Span(text) ==
    [plain_text |-> text, bold |-> FALSE, italic |-> FALSE,
     strikethrough |-> FALSE, underline |-> FALSE, code |-> FALSE,
     color |-> <<"default">>, href |-> Null, type |-> "text",
     mention |-> "none", date_start |-> <<>>, date_end |-> <<>>,
     expression |-> <<>>]

Wrap(open, body, close) == <<open>> \o body \o <<close>>

\* A renderer that applies italic before bold.
annotateItalicFirst(span, inner, codeOpen) ==
    LET i == IF span.italic THEN Wrap("<em>", inner, "</em>") ELSE inner
        b == IF span.bold THEN Wrap("<strong>", i, "</strong>") ELSE i
        s == IF span.strikethrough THEN Wrap("<del>", b, "</del>") ELSE b
        u == IF span.underline THEN Wrap("<u>", s, "</u>") ELSE s
    IN  IF span.code THEN Wrap(codeOpen, u, "</code>") ELSE u

\* The five annotation wrappers, applied in the order the code applies them.
annotate(span, inner, codeOpen) ==
    LET b == IF span.bold THEN Wrap("<strong>", inner, "</strong>") ELSE inner
        i == IF span.italic THEN Wrap("<em>", b, "</em>") ELSE b
        s == IF span.strikethrough THEN Wrap("<del>", i, "</del>") ELSE i
        u == IF span.underline THEN Wrap("<u>", s, "</u>") ELSE s
    IN  IF span.code THEN Wrap(codeOpen, u, "</code>") ELSE u

\* color.endsWith('_background') ? notion-bg-<name> : notion-color-<color>
colorize(span, inner) ==
    LET color == span.color IN
    IF color = Null \/ color = <<"default">> THEN inner
    ELSE IF color[Len(color)] = "_background"
      THEN <<"<span class=\"notion-bg-">> \o SubSeq(color, 1, Len(color) - 1)
             \o <<"\">">> \o inner \o <<"</span>">>
      ELSE <<"<span class=\"notion-color-">> \o color
             \o <<"\">">> \o inner \o <<"</span>">>

AnchorOpen == "<a href=\""
AnchorBlank == "\" target=\"_blank\" rel=\"noopener noreferrer\">"

\* page-detail: the href is written as it is; a mention or an equation
\* replaces everything built so far.
spanToHtmlPage(span) ==
    LET a == annotate(span, escapeHtml(span.plain_text),
                      "<code class=\"notion-inline-code\">")
        c == colorize(span, a)
        l == IF span.href # Null /\ span.href # <<>>
             THEN <<AnchorOpen>> \o span.href \o <<AnchorBlank>> \o c \o <<"</a>">>
             ELSE c
        m == IF span.type = "mention" /\ span.mention = "user"
               THEN <<"<span class=\"notion-mention notion-mention--user\">@">>
                      \o span.plain_text \o <<"</span>">>
             ELSE IF span.type = "mention" /\ span.mention = "date"
               THEN <<"<span class=\"notion-mention notion-mention--date\">">>
                      \o span.date_start
                      \o (IF span.date_end # <<>>
                          THEN <<" U+2192 ">> \o span.date_end ELSE <<>>)
                      \o <<"</span>">>
             ELSE IF span.type = "mention" /\ span.mention = "page"
               THEN <<"<a href=\"/page/">>
                      \o hyphenateRuns(toLowerCase(span.plain_text))
                      \o <<"\" class=\"notion-mention notion-mention--page\">">>
                      \o span.plain_text \o <<"</a>">>
             ELSE l
    IN  IF span.type = "equation"
        THEN <<"<span class=\"notion-equation-inline\" data-equation=\"">>
               \o escapeHtml(span.expression) \o <<"\">">>
               \o escapeHtml(span.expression) \o <<"</span>">>
        ELSE m

\* homepage: the href goes through sanitizeHref and escapeHtml.
spanToHtmlHome(span) ==
    LET a == annotate(span, escapeHtml(span.plain_text),
                      "<code class=\"notion-inline-code\">")
        c == colorize(span, a)
        safeHref == sanitizeHref(span.href)
    IN  IF span.href # Null /\ span.href # <<>> /\ safeHref # Null
        THEN <<AnchorOpen>> \o escapeHtml(safeHref) \o <<AnchorBlank>> \o c \o <<"</a>">>
        ELSE c

\* homepage sections: as homepage, the anchor has no target.
spanToHtmlSections(span) ==
    LET a == annotate(span, escapeHtml(span.plain_text),
                      "<code class=\"notion-inline-code\">")
        c == colorize(span, a)
        safeHref == sanitizeHref(span.href)
    IN  IF span.href # Null /\ span.href # <<>> /\ safeHref # Null
        THEN <<AnchorOpen>> \o escapeHtml(safeHref) \o <<"\">">> \o c \o <<"</a>">>
        ELSE c

\* blog-detail: no colour, the href is written as it is.
spanToHtmlBlog(span) ==
    LET a == annotate(span, escapeHtml(span.plain_text), "<code>") IN
    IF span.href # Null /\ span.href # <<>>
    THEN <<AnchorOpen>> \o span.href \o <<AnchorBlank>> \o a \o <<"</a>">>
    ELSE a

spanToHtml(v, span) ==
    CASE v = "page" -> spanToHtmlPage(span)
      [] v = "home" -> spanToHtmlHome(span)
      [] v = "sections" -> spanToHtmlSections(span)
      [] v = "blog" -> spanToHtmlBlog(span)

\* richText.map(...).join('').  A rich_text that is absent is the empty
\* sequence: `if (!richText || !Array.isArray(richText)) return ''` gives it
\* the value of the empty array.
richTextToHtml(v, richText) ==
    Flatten([i \in 1..Len(richText) |-> spanToHtml(v, richText[i])])

\* richText.map(t => t.plain_text).join('')
richTextToPlainText(richText) ==
    Flatten([i \in 1..Len(richText) |-> richText[i].plain_text])


(***************************************************************************)
(* The Block Source: the blocks of one Notion workspace.  Block(id) is the *)
(* block object, Children(id) the results of blocks.children.list for it,  *)
(* Page(id) the object pages.retrieve answers with.                        *)
(***************************************************************************)
\* An absent id (undefined).
NoId == ""

Blk(id, type, richText, hasChildren) ==
    [id |-> id, type |-> type, rich_text |-> richText,
     has_children |-> hasChildren, synced_from |-> NoId, page_id |-> NoId,
     has_column_header |-> FALSE, has_row_header |-> FALSE, cells |-> <<>>,
     url |-> Null, caption |-> <<>>, language |-> <<>>, name |-> <<>>,
     icon_type |-> "none", icon |-> <<>>, color |-> <<>>]

Text(c) == <<Span(<<c>>)>>

JsHref == <<"j", "a", "v", "a", "s", "c", "r", "i", "p", "t", ":",
            "a", "l", "e", "r", "t", "(", "1", ")">>

HttpsHref == <<"h", "t", "t", "p", "s", ":", "/", "/", "e", ".", "c", "o">>

Block(id) ==
    CASE id = "b1" -> Blk(id, "bulleted_list_item", Text("A"), FALSE)
      [] id = "b2" -> Blk(id, "bulleted_list_item", Text("B"), FALSE)
      [] id = "n1" -> Blk(id, "numbered_list_item", Text("C"), FALSE)
      [] id = "p1" -> Blk(id, "paragraph", Text("X"), FALSE)
      [] id = "pe" -> Blk(id, "paragraph", <<>>, FALSE)
      [] id = "ps" -> Blk(id, "paragraph", <<Span(<<" ">>), Span(<<"\n">>)>>, FALSE)
      [] id = "pb" -> Blk(id, "paragraph", <<[Span(<<" ">>) EXCEPT !.bold = TRUE]>>, FALSE)
      [] id = "pj" -> Blk(id, "paragraph", <<[Span(<<"K">>) EXCEPT !.href = JsHref]>>, FALSE)
      [] id = "ph" -> Blk(id, "paragraph", <<[Span(<<"W">>) EXCEPT !.href = HttpsHref]>>, FALSE)
      [] id = "un" -> Blk(id, "unsupported", <<>>, FALSE)
      [] id = "tg" -> Blk(id, "toggle", Text("T"), TRUE)
      [] id = "t1" -> Blk(id, "bulleted_list_item", Text("D"), FALSE)
      [] id = "t2" -> Blk(id, "toggle", Text("E"), TRUE)
      [] id = "u1" -> Blk(id, "paragraph", Text("F"), FALSE)
      [] id = "te" -> Blk(id, "toggle", Text("Y"), FALSE)
      [] id = "lk" -> [Blk(id, "link_to_page", <<>>, FALSE) EXCEPT !.page_id = "pg"]
      [] id = "cl" -> Blk(id, "column_list", <<>>, TRUE)
      [] id = "c1" -> Blk(id, "column", <<>>, TRUE)
      [] id = "c2" -> Blk(id, "column", <<>>, TRUE)
      [] id = "k1" -> Blk(id, "paragraph", Text("G"), FALSE)
      [] id = "k2" -> Blk(id, "numbered_list_item", Text("H"), FALSE)
      [] id = "tb" -> [Blk(id, "table", <<>>, TRUE) EXCEPT !.has_column_header = TRUE]
      [] id = "r1" -> [Blk(id, "table_row", <<>>, FALSE)
                          EXCEPT !.cells = <<Text("I"), Text("J")>>]
      [] id = "r2" -> [Blk(id, "table_row", <<>>, FALSE)
                          EXCEPT !.cells = <<Text("L"), Text("M")>>]
      [] id = "sy" -> Blk(id, "synced_block", <<>>, TRUE)
      [] id = "s1" -> Blk(id, "paragraph", Text("N"), FALSE)
      [] id = "s2" -> Blk(id, "bulleted_list_item", Text("O"), FALSE)
      [] id = "sr" -> [Blk(id, "synced_block", <<>>, FALSE) EXCEPT !.synced_from = "sy"]
      [] id = "tl" -> Blk(id, "toggle", Text("Q"), TRUE)
      [] id = "x1" -> Blk(id, "paragraph", Text("R"), FALSE)
      [] id = "x2" -> Blk(id, "paragraph", Text("S"), FALSE)

Children(id) ==
    CASE id = "tg" -> <<"t1", "t2">>
      [] id = "t2" -> <<"u1">>
      [] id = "cl" -> <<"c1", "c2">>
      [] id = "c1" -> <<"k1">>
      [] id = "c2" -> <<"k2">>
      [] id = "tb" -> <<"r1", "r2">>
      [] id = "sy" -> <<"s1", "s2">>
      [] id = "tl" -> <<"x1">>
      [] OTHER -> <<>>

\* The children the Block Source holds beyond the results of the first
\* response: has_more is true on that response when there are some.
Rest(id) ==
    CASE id = "tl" -> <<"x2">>
      [] OTHER -> <<>>

Page(id) ==
    CASE id = "pg" -> [title |-> <<Span(<<"P", " ", "q">>)>>]
      [] OTHER -> [title |-> <<>>]

\* The pages that are rendered hold the blocks of one of these sets at their
\* top level: lists and what interrupts them, paragraphs, containers.
ListBlocks == {"b1", "b2", "n1", "p1", "un", "tg"}

TextBlocks == {"p1", "pe", "ps", "pb", "pj", "ph"}

ContainerBlocks == {"p1", "te", "lk", "cl", "tb", "sy", "b1"}

PageContents == {ListBlocks, TextBlocks, ContainerBlocks}

\* The requests whose failure a behaviour may choose.
FailCandidates == {"tg", "t2", "pg"}

RECURSIVE Reachable(_)
Reachable(ids) ==
    IF ids = <<>> THEN {}
    ELSE LET b == Block(Head(ids)) IN
         {b.id} \cup (IF b.page_id # NoId THEN {b.page_id} ELSE {})
                \cup Reachable(Children(b.id)) \cup Reachable(Tail(ids))

(***************************************************************************)
(* extractTitle (page-detail)                                              *)
(***************************************************************************)
Untitled == <<"U", "n", "t", "i", "t", "l", "e", "d">>

extractTitle(page) ==
    IF page.title # <<>> /\ page.title[1].plain_text # <<>>
    THEN page.title[1].plain_text
    ELSE Untitled

(***************************************************************************)
(* closeList                                                               *)
(***************************************************************************)
NoList == [type |-> "none", items |-> <<>>]

\* page-detail
closeListPage(lc) ==
    IF lc.type = "none" \/ lc.items = <<>> THEN <<>>
    ELSE <<"<" \o lc.type \o " class=\"notion-list\">\n">>
         \o Flatten([j \in 1..Len(lc.items) |->
               <<"  <li>">> \o richTextToHtml("page", Block(lc.items[j]).rich_text)
                   \o <<"</li>\n">>])
         \o <<"</" \o lc.type \o ">\n">>

\* homepage and homepage sections
closeListHome(v, lc) ==
    <<"<" \o lc.type \o " class=\"notion-list\">">>
    \o Flatten([j \in 1..Len(lc.items) |->
          <<"<li>">> \o richTextToHtml(v, Block(lc.items[j]).rich_text) \o <<"</li>">>])
    \o <<"</" \o lc.type \o ">">>

closeList(v, lc) ==
    IF v = "page" THEN closeListPage(lc) ELSE closeListHome(v, lc)


(***************************************************************************)
(* blockToHtml: the markup of one block.  The cases that ask the Block     *)
(* Source for children or for a page are split at the request: what is     *)
(* built from the answer is a separate operator.                           *)
(***************************************************************************)
RecognisedPage ==
    {"paragraph", "heading_1", "heading_2", "heading_3", "quote", "callout",
     "code", "divider", "image", "video", "audio", "file", "pdf", "embed",
     "bookmark", "link_preview", "table", "toggle", "to_do", "child_page",
     "child_database", "column_list", "column", "equation",
     "table_of_contents", "breadcrumb", "synced_block", "template",
     "link_to_page"}

RecognisedHome ==
    {"paragraph", "heading_1", "heading_2", "heading_3", "quote", "callout",
     "code", "divider", "image", "video", "embed", "bookmark", "toggle",
     "column_list", "table", "to_do", "child_page"}

RecognisedSections ==
    {"paragraph", "heading_1", "heading_2", "heading_3", "quote", "callout",
     "code", "divider", "image", "toggle"}

RecognisedBlog ==
    {"paragraph", "heading_1", "heading_2", "heading_3", "bulleted_list_item",
     "numbered_list_item", "image", "quote", "code", "divider"}

Recognised(v) ==
    CASE v = "page" -> RecognisedPage
      [] v = "home" -> RecognisedHome
      [] v = "sections" -> RecognisedSections
      [] v = "blog" -> RecognisedBlog

IsListItem(b) == b.type \in {"bulleted_list_item", "numbered_list_item"}

\* case 'paragraph'
paragraphHtml(v, b) ==
    LET text == richTextToHtml(v, b.rich_text) IN
    IF trim(text) = <<>> THEN <<>>
    ELSE CASE v = "page" -> <<"<p class=\"notion-paragraph\">">> \o text \o <<"</p>\n">>
           [] v \in {"home", "sections"} ->
                <<"<p class=\"notion-paragraph\">">> \o text \o <<"</p>">>
           [] v = "blog" -> <<"<p>">> \o text \o <<"</p>\n">>

\* A renderer that throws on a type it does not know.
defaultThrows(v, type) == Threw

\* default: of the switch
defaultHtml(v, type) ==
    IF v = "page" THEN <<"<!-- Unsupported block type: ", type, " -->\n">>
    ELSE <<>>

\* case 'toggle', once childrenHtml is known
toggleHtml(v, b, childrenHtml) ==
    LET text == richTextToHtml(v, b.rich_text) IN
    IF v = "page"
    THEN <<"<details class=\"notion-toggle\">\n  <summary>">> \o text
           \o <<"</summary>\n  <div class=\"notion-toggle-content\">">>
           \o childrenHtml \o <<"</div>\n</details>\n">>
    ELSE <<"<details class=\"notion-toggle\">\n        <summary>">> \o text
           \o <<"</summary>\n        <div class=\"notion-toggle-content\">">>
           \o childrenHtml \o <<"</div>\n      </details>">>

\* case 'table' of page-detail: one row of tableBlocks.results.forEach
tableRowPage(b, row, rowIndex) ==
    IF row.type # "table_row" THEN <<>>
    ELSE LET isHeaderRow == b.has_column_header /\ rowIndex = 0
             tag == IF isHeaderRow THEN "th" ELSE "td"
             wrapper == IF isHeaderRow THEN "thead"
                        ELSE IF rowIndex = 1 /\ b.has_column_header THEN "tbody"
                        ELSE ""
             cellTag(cellIndex) ==
                 IF b.has_row_header /\ cellIndex = 0 /\ ~isHeaderRow THEN "th" ELSE tag
         IN  (IF wrapper = "thead" THEN <<"<thead>\n">> ELSE <<>>)
             \o (IF wrapper = "tbody" THEN <<"<tbody>\n">> ELSE <<>>)
             \o <<"<tr>\n">>
             \o Flatten([c \in 1..Len(row.cells) |->
                   <<"  <" \o cellTag(c - 1) \o ">">>
                     \o richTextToHtml("page", row.cells[c])
                     \o <<"</" \o cellTag(c - 1) \o ">\n">>])
             \o <<"</tr>\n">>
             \o (IF isHeaderRow THEN <<"</thead>\n">> ELSE <<>>)

tableHtmlPage(b, rows) ==
    <<"<table class=\"notion-table\">\n">>
    \o Flatten([r \in 1..Len(rows) |-> tableRowPage(b, Block(rows[r]), r - 1)])
    \o (IF b.has_column_header /\ Len(rows) > 1 THEN <<"</tbody>\n">> ELSE <<>>)
    \o <<"</table>\n">>

\* case 'table' of homepage
tableHtmlHome(b, rows) ==
    <<"<div class=\"notion-table-wrapper\"><table class=\"notion-table\">">>
    \o Flatten([r \in 1..Len(rows) |->
          LET row == Block(rows[r])
              tag == IF b.has_column_header /\ r - 1 = 0 THEN "th" ELSE "td"
          IN  IF row.type = "table_row"
              THEN <<"<tr>">>
                   \o Flatten([c \in 1..Len(row.cells) |->
                         <<"<" \o tag \o ">">> \o richTextToHtml("home", row.cells[c])
                           \o <<"</" \o tag \o ">">>])
                   \o <<"</tr>">>
              ELSE <<>>])
    \o <<"</table></div>">>

tableHtml(v, b, rows) ==
    IF v = "page" THEN tableHtmlPage(b, rows) ELSE tableHtmlHome(b, rows)

\* case 'link_to_page' of page-detail, once the page is retrieved
linkToPageHtml(page) ==
    LET title == extractTitle(page) IN
    <<"<div class=\"notion-page-link\">\n  <a href=\"/page/">> \o slugify(title)
      \o <<"\">U+2197 ">> \o escapeHtml(title) \o <<"</a>\n</div>\n">>

\* case 'link_to_page' of page-detail: the catch
linkToPageBroken ==
    <<"<div class=\"notion-page-link notion-page-link--broken\">Link to page</div>\n">>

(***************************************************************************)
(* The cases of blockToHtml that ask nothing of the Block Source.          *)
(*   url        file.url || external.url (or .url of embed, bookmark,      *)
(*              link_preview); Null when the block has none                *)
(*   caption    the caption rich text (<<>>: absent)                       *)
(*   language   code.language (<<>>: absent), name  file.name              *)
(*   icon_type  "none", "emoji", "external" or "file"; icon the emoji or   *)
(*              the url;  color  callout.color (<<>>: absent)              *)
(***************************************************************************)
\* !x for a string or an absent value
Falsy(x) == x = Null \/ x = <<>>

Or(x, dflt) == IF Falsy(x) THEN dflt ELSE x

HeadingTag(type) ==
    CASE type = "heading_1" -> "h1"
      [] type = "heading_2" -> "h2"
      [] type = "heading_3" -> "h3"

\* case 'heading_1' / 'heading_2' / 'heading_3'
headingHtml(v, b) ==
    LET h == HeadingTag(b.type)
        text == richTextToHtml(v, b.rich_text)
    IN  CASE v = "page" ->
               <<"<" \o h \o " id=\"">> \o slugify(Explode(text))
                 \o <<"\" class=\"notion-" \o h \o "\">">> \o text
                 \o <<"</" \o h \o ">\n">>
          [] v = "home" ->
               <<"<" \o h \o " id=\"">> \o slugify(richTextToPlainText(b.rich_text))
                 \o <<"\" class=\"notion-" \o h \o "\">">> \o text
                 \o <<"</" \o h \o ">">>
          [] v = "sections" ->
               <<"<" \o h \o " class=\"notion-" \o h \o "\">">> \o text
                 \o <<"</" \o h \o ">">>
          [] v = "blog" ->
               <<"<" \o h \o ">">> \o text \o <<"</" \o h \o ">\n">>

\* case 'quote'
quoteHtml(v, b) ==
    LET text == richTextToHtml(v, b.rich_text) IN
    CASE v = "page" ->
           <<"<blockquote class=\"notion-quote\">">> \o text \o <<"</blockquote>\n">>
      [] v \in {"home", "sections"} ->
           <<"<blockquote class=\"notion-quote\">">> \o text \o <<"</blockquote>">>
      [] v = "blog" -> <<"<blockquote>">> \o text \o <<"</blockquote>\n">>

DefaultIcon == <<"U+1F4A1">>

\* case 'callout'
calloutHtml(v, b) ==
    LET text == richTextToHtml(v, b.rich_text)
        color == Or(b.color, <<"default">>)
    IN  IF v = "page"
        THEN LET iconHtml ==
                   CASE b.icon_type = "emoji" ->
                          <<"<span class=\"notion-callout-icon\">">> \o b.icon
                            \o <<"</span>">>
                     [] b.icon_type \in {"external", "file"} ->
                          <<"<img class=\"notion-callout-icon\" src=\"">> \o b.icon
                            \o <<"\" alt=\"\" />">>
                     [] OTHER -> <<>>
             IN  <<"<div class=\"notion-callout notion-callout--">> \o color
                   \o <<"\">">> \o iconHtml
                   \o <<"<div class=\"notion-callout-content\">">> \o text
                   \o <<"</div></div>\n">>
        ELSE LET calloutIcon ==
                   IF b.icon_type = "emoji" /\ b.icon # <<>> THEN b.icon
                   ELSE DefaultIcon
             IN  <<"<div class=\"notion-callout notion-callout--">> \o color
                   \o <<"\">\n        <span class=\"notion-callout-icon\">">>
                   \o calloutIcon
                   \o <<"</span>\n        <div class=\"notion-callout-content\">">>
                   \o text \o <<"</div>\n      </div>">>

\* block.code.rich_text.map(t => t.plain_text).join('')
codePlainText(b) == richTextToPlainText(b.rich_text)

\* case 'code'
codeHtml(v, b) ==
    LET language == Or(b.language, <<"text">>) IN
    CASE v = "page" ->
           LET caption == richTextToHtml(v, b.caption)
               pre == <<"<pre class=\"notion-code\"><code class=\"language-">>
                        \o language \o <<"\">">> \o escapeHtml(codePlainText(b))
                        \o <<"</code></pre>\n">>
           IN  IF caption # <<>>
               THEN <<"<figure class=\"notion-code-figure\">">> \o pre
                      \o <<"<figcaption class=\"notion-code-caption\">">> \o caption
                      \o <<"</figcaption></figure>\n">>
               ELSE pre
      [] v \in {"home", "sections"} ->
           <<"<pre class=\"notion-code\"><code class=\"language-">> \o language
             \o <<"\">">> \o escapeHtml(codePlainText(b)) \o <<"</code></pre>">>
      [] v = "blog" ->
           <<"<pre><code class=\"language-">> \o language \o <<"\">">>
             \o escapeHtml(Explode(richTextToHtml(v, b.rich_text)))
             \o <<"</code></pre>\n">>

\* case 'divider'
dividerHtml(v) ==
    CASE v = "page" -> <<"<hr class=\"notion-divider\" />\n">>
      [] v \in {"home", "sections"} -> <<"<hr class=\"notion-divider\">">>
      [] v = "blog" -> <<"<hr>\n">>

\* ${caption ? `<figcaption>${caption}</figcaption>` : ''}
figcaption(caption) ==
    IF caption # <<>> THEN <<"<figcaption>">> \o caption \o <<"</figcaption>">>
    ELSE <<>>

\* case 'image'
imageHtml(v, b) ==
    LET caption == richTextToHtml(v, b.caption) IN
    CASE v = "page" ->
           IF Falsy(b.url) THEN <<>>
           ELSE <<"<figure class=\"notion-image\">\n  <img src=\"">> \o b.url
                  \o <<"\" alt=\"">>
                  \o (IF caption # <<>> THEN stripHtml(caption) ELSE <<>>)
                  \o <<"\" loading=\"lazy\" />\n  ">> \o figcaption(caption)
                  \o <<"\n</figure>\n">>
      [] v \in {"home", "sections"} ->
           <<"<figure class=\"notion-image\">\n        <img src=\"">>
             \o escapeHtml(Or(b.url, <<>>)) \o <<"\" alt=\"">>
             \o escapeHtml(stripHtml(caption))
             \o <<"\" loading=\"lazy\">\n        ">> \o figcaption(caption)
             \o <<"\n      </figure>">>
      [] v = "blog" ->
           IF Falsy(b.url) THEN <<>>
           ELSE <<"<figure class=\"blog-image\">\n            <img src=\"">>
                  \o b.url \o <<"\" alt=\"">> \o caption
                  \o <<"\" loading=\"lazy\">\n            ">> \o figcaption(caption)
                  \o <<"\n          </figure>\n">>

\* case 'audio' (page-detail)
audioHtml(b) ==
    IF Falsy(b.url) THEN <<>>
    ELSE <<"<figure class=\"notion-audio\">\n  <audio controls preload=\"metadata\">\n    <source src=\"">>
           \o b.url
           \o <<"\" />\n    Your browser does not support audio.\n  </audio>\n  ">>
           \o figcaption(richTextToHtml("page", b.caption)) \o <<"\n</figure>\n">>

\* case 'file' (page-detail)
fileHtml(b) ==
    LET caption == richTextToHtml("page", b.caption)
        name == Or(b.name, <<"Download file">>)
    IN  IF Falsy(b.url) THEN <<>>
        ELSE <<"<div class=\"notion-file\">\n  <a href=\"">> \o b.url
               \o <<"\" target=\"_blank\" rel=\"noopener noreferrer\" class=\"notion-file-link\">\n    <span class=\"notion-file-icon\">U+1F4CE</span>\n    <span class=\"notion-file-name\">">>
               \o escapeHtml(name) \o <<"</span>\n  </a>\n  ">>
               \o (IF caption # <<>>
                   THEN <<"<p class=\"notion-file-caption\">">> \o caption \o <<"</p>">>
                   ELSE <<>>)
               \o <<"\n</div>\n">>

\* case 'pdf' (page-detail)
pdfHtml(b) ==
    IF Falsy(b.url) THEN <<>>
    ELSE <<"<figure class=\"notion-pdf\">\n  <iframe src=\"">> \o b.url
           \o <<"\" class=\"notion-pdf-embed\" loading=\"lazy\"></iframe>\n  ">>
           \o figcaption(richTextToHtml("page", b.caption)) \o <<"\n</figure>\n">>

\* case 'embed'
embedHtml(v, b) ==
    IF v = "page"
    THEN IF Falsy(b.url) THEN <<>>
         ELSE <<"<figure class=\"notion-embed\">\n  <iframe src=\"">> \o b.url
                \o <<"\" class=\"notion-embed-iframe\" loading=\"lazy\" allowfullscreen></iframe>\n  ">>
                \o figcaption(richTextToHtml(v, b.caption)) \o <<"\n</figure>\n">>
    ELSE <<"<div class=\"notion-embed\">\n        <iframe src=\"">>
           \o escapeHtml(Or(b.url, <<>>))
           \o <<"\" class=\"notion-embed-iframe\" sandbox=\"allow-scripts allow-same-origin allow-popups allow-forms\"></iframe>\n      </div>">>

\* case 'bookmark'
bookmarkHtml(v, b) ==
    IF v = "page"
    THEN LET caption == richTextToHtml(v, b.caption) IN
         IF Falsy(b.url) THEN <<>>
         ELSE <<"<div class=\"notion-bookmark\">\n  <a href=\"">> \o b.url
                \o <<"\" target=\"_blank\" rel=\"noopener noreferrer\" class=\"notion-bookmark-link\">\n    <span class=\"notion-bookmark-url\">">>
                \o escapeHtml(b.url) \o <<"</span>\n  </a>\n  ">>
                \o (IF caption # <<>>
                    THEN <<"<p class=\"notion-bookmark-caption\">">> \o caption \o <<"</p>">>
                    ELSE <<>>)
                \o <<"\n</div>\n">>
    ELSE <<"<div class=\"notion-bookmark\">\n        <a href=\"">>
           \o escapeHtml(Or(b.url, <<>>))
           \o <<"\" class=\"notion-bookmark-link\" target=\"_blank\" rel=\"noopener noreferrer\">\n          <span class=\"notion-bookmark-url\">">>
           \o escapeHtml(Or(b.url, <<>>)) \o <<"</span>\n        </a>\n      </div>">>

\* case 'link_preview' (page-detail)
linkPreviewHtml(b) ==
    IF Falsy(b.url) THEN <<>>
    ELSE <<"<div class=\"notion-link-preview\">\n  <a href=\"">> \o b.url
           \o <<"\" target=\"_blank\" rel=\"noopener noreferrer\">">>
           \o escapeHtml(b.url) \o <<"</a>\n</div>\n">>

\* The request a block's case sends first: "children" (blocks.children.list),
\* "page" (pages.retrieve) or "none".
Request(v, b) ==
    IF v = "blog" \/ b.type \notin Recognised(v) THEN "none"
    ELSE
    CASE b.type = "toggle" -> IF b.has_children THEN "children" ELSE "none"
      [] b.type \in {"table", "column_list"} ->
            IF b.has_children THEN "children" ELSE "none"
      [] b.type = "synced_block" ->
            IF b.synced_from # NoId \/ b.has_children THEN "children" ELSE "none"
      [] b.type = "link_to_page" -> IF b.page_id # NoId THEN "page" ELSE "none"
      [] OTHER -> "none"

\* A renderer that asks for the children of the synced block itself.
RequestTargetOwn(b) ==
    CASE b.type = "link_to_page" -> b.page_id
      [] OTHER -> b.id

\* The id the request names.
RequestTarget(b) ==
    CASE b.type = "link_to_page" -> b.page_id
      [] b.type = "synced_block" /\ b.synced_from # NoId -> b.synced_from
      [] OTHER -> b.id

\* The cases of the switch that read the block alone: headings, quote,
\* callout, code, divider and the media.
OwnTypes ==
    {"heading_1", "heading_2", "heading_3", "quote", "callout", "code",
     "divider", "image", "audio", "file", "pdf", "embed", "bookmark",
     "link_preview"}

blockToHtmlOwn(v, b) ==
    CASE b.type \in {"heading_1", "heading_2", "heading_3"} -> headingHtml(v, b)
      [] b.type = "quote" -> quoteHtml(v, b)
      [] b.type = "callout" -> calloutHtml(v, b)
      [] b.type = "code" -> codeHtml(v, b)
      [] b.type = "divider" -> dividerHtml(v)
      [] b.type = "image" -> imageHtml(v, b)
      [] b.type = "audio" -> audioHtml(b)
      [] b.type = "file" -> fileHtml(b)
      [] b.type = "pdf" -> pdfHtml(b)
      [] b.type = "embed" -> embedHtml(v, b)
      [] b.type = "bookmark" -> bookmarkHtml(v, b)
      [] b.type = "link_preview" -> linkPreviewHtml(b)

\* The value of blockToHtml for a block whose case sends no request: the
\* paragraph, the cases that take children, the types without a case.
blockToHtmlLocal(v, b) ==
    IF b.type \notin Recognised(v) THEN defaultHtml(v, b.type)
    ELSE
    CASE b.type = "paragraph" -> paragraphHtml(v, b)
      [] b.type = "toggle" -> toggleHtml(v, b, <<>>)
      [] b.type \in {"table", "column_list", "column", "synced_block",
                     "link_to_page"} -> <<>>

\* The switch of blockToHtml, every case that sends no request.
blockToHtmlCases(v, b) ==
    IF b.type \in OwnTypes /\ b.type \in Recognised(v)
    THEN blockToHtmlOwn(v, b)
    ELSE blockToHtmlLocal(v, b)

\* A renderer whose link_to_page case has no try/catch.
CatchesButLink(v, b) ==
    /\ v = "page"
    /\ b.type \in {"toggle", "table", "column_list", "synced_block"}

\* try { ... } catch: the cases of page-detail that catch what the request or
\* the rendering of the children throws, and the value they return then.
Catches(v, b) ==
    /\ v = "page"
    /\ b.type \in {"toggle", "table", "column_list", "synced_block", "link_to_page"}

catchHtml(v, b) ==
    CASE b.type = "toggle" -> toggleHtml(v, b, <<>>)
      [] b.type = "table" -> <<"<p class=\"notion-error\">Unable to load table</p>\n">>
      [] b.type = "link_to_page" -> linkToPageBroken
      [] OTHER -> <<>>

\* blog-detail: what one iteration of the for-of appends.
blogBlockHtml(b) ==
    CASE b.type = "paragraph" -> paragraphHtml("blog", b)
      [] b.type = "bulleted_list_item" ->
            <<"<ul><li>">> \o richTextToHtml("blog", b.rich_text) \o <<"</li></ul>\n">>
      [] b.type = "numbered_list_item" ->
            <<"<ol><li>">> \o richTextToHtml("blog", b.rich_text) \o <<"</li></ol>\n">>
      [] OTHER -> <<>>

\* blog-detail: the cases for headings, image, quote, code and divider.
blogBlockOwn(b) ==
    CASE b.type \in {"heading_1", "heading_2", "heading_3"} -> headingHtml("blog", b)
      [] b.type = "image" -> imageHtml("blog", b)
      [] b.type = "quote" -> quoteHtml("blog", b)
      [] b.type = "code" -> codeHtml("blog", b)
      [] b.type = "divider" -> dividerHtml("blog")

\* blog-detail: one iteration of the for-of, every case.
blogBlockCases(b) ==
    IF b.type \in OwnTypes /\ b.type \in RecognisedBlog
    THEN blogBlockOwn(b)
    ELSE blogBlockHtml(b)


(***************************************************************************)
(* The render calls.  Each call is a stack of activation records:          *)
(*   k = "loop"     blocksToHtml at the top of iteration i of `blocks`,    *)
(*                  its locals html and listContext live in scope d        *)
(*   k = "wait"     blockToHtml of `block`, awaiting the Block Source      *)
(*   k = "cols"     case 'column_list' at column i of `blocks`, `acc` is   *)
(*                  its local html                                         *)
(*   k = "colwait"  case 'column_list' awaiting the children of column i   *)
(* A call runs without interruption from one await to the next: `running`  *)
(* is the call that holds the event loop.                                  *)
(***************************************************************************)
Calls == {1, 2}

Depths == 1..3

Variants == {"page", "home", "sections", "blog"}

Frame(k, blocks, i, d, block, acc) ==
    [k |-> k, blocks |-> blocks, i |-> i, d |-> d, block |-> block, acc |-> acc]

\* A renderer whose html and listContext are module-level variables, one per
\* depth, shared by all calls.
ScopeShared(p, d) == <<0, d>>

\* `let html = ''; let listContext = ...` are locals of one activation of one
\* call: the binding of call p at depth d.
Scope(p, d) == <<p, d>>

Scopes == (Calls \cup {0}) \X Depths

\* A renderer that writes a piece in front of what it has.
prependHtml(h, piece) == piece \o h

\* html += piece
appendHtml(h, piece) == h \o piece

Pop(stk) == SubSeq(stk, 1, Len(stk) - 1)

Top(stk) == stk[Len(stk)]

\* An exception propagates to the nearest enclosing try/catch.  The value is
\* the stack whose top is the blocksToHtml activation that receives `piece`
\* from the catching case, or the empty stack when nothing catches.
RECURSIVE Unwind(_, _)
Unwind(v, stk) ==
    IF stk = <<>> THEN [stack |-> <<>>, piece |-> Threw]
    ELSE LET f == Top(stk) IN
         IF f.k # "loop" /\ Catches(v, Block(f.block))
         THEN [stack |-> Pop(stk), piece |-> catchHtml(v, Block(f.block))]
         ELSE Unwind(v, Pop(stk))

\* The call rejects.
Reject(p) ==
    /\ stack' = [stack EXCEPT ![p] = <<>>]
    /\ result' = [result EXCEPT ![p] = Threw]
    /\ UNCHANGED <<html, listContext>>

\* `html += await blockToHtml(notion, block)` completes with `piece`: stk is
\* the stack of p, its top the blocksToHtml activation that awaited.
Settle(p, stk, piece) ==
    LET f == Top(stk) IN
    /\ html' = [html EXCEPT ![Scope(p, f.d)] = appendHtml(@, piece)]
    /\ stack' = [stack EXCEPT ![p] = Pop(stk) \o <<[f EXCEPT !.i = @ + 1]>>]
    /\ UNCHANGED <<listContext, result>>

\* An exception is thrown in the activation on top of stk.
Raise(p, stk) ==
    LET u == Unwind(variant, stk) IN
    IF u.stack = <<>> THEN Reject(p) ELSE Settle(p, u.stack, u.piece)

\* blockToHtml returned `piece`, or threw when piece = Threw.
Deliver(p, stk, piece) ==
    IF piece = Threw THEN Raise(p, Pop(stk)) ELSE Settle(p, stk, piece)

CanRun(p) ==
    /\ running \in {0, p}
    /\ stack[p] # <<>>

AtBlock(p) ==
    /\ CanRun(p)
    /\ Top(stack[p]).k = "loop"
    /\ Top(stack[p]).i <= Len(Top(stack[p]).blocks)

Current(p) == Block(Top(stack[p]).blocks[Top(stack[p]).i])

\* The handler calls blocksToHtml(notion, blocks).
Invoke(p) ==
    /\ p \in active
    /\ result[p] = Null
    /\ running = 0
    /\ stack' = [stack EXCEPT ![p] = <<Frame("loop", roots[p], 1, 1, "", <<>>)>>]
    /\ html' = [html EXCEPT ![Scope(p, 1)] = <<>>]
    /\ listContext' = [listContext EXCEPT ![Scope(p, 1)] = NoList]
    /\ result' = [result EXCEPT ![p] = Pending]
    /\ running' = p
    /\ UNCHANGED <<variant, roots, failing, active, sanVars, restVars>>

\* An iteration on a list item that does not look at the next block: the
\* list stays open until a later iteration closes it.
listItemStepKeepOpen(v, ids, i, h, lc) ==
    LET block == Block(ids[i])
        listType == IF block.type = "bulleted_list_item" THEN "ul" ELSE "ol"
        closedPrev == IF lc.type # listType /\ lc.type # "none"
                      THEN appendHtml(h, closeList(v, lc))
                      ELSE h
        opened == IF lc.type # listType
                  THEN [type |-> listType, items |-> <<>>]
                  ELSE lc
    IN  [html |-> closedPrev,
         listContext |-> [opened EXCEPT !.items = Append(@, block.id)]]

\* One iteration of the loop on the list item ids[i]: the values of html and
\* listContext after it, from their values h and lc before it.
listItemStep(v, ids, i, h, lc) ==
    LET block == Block(ids[i])
        listType == IF block.type = "bulleted_list_item" THEN "ul" ELSE "ol"
        closedPrev == IF lc.type # listType /\ lc.type # "none"
                      THEN appendHtml(h, closeList(v, lc))
                      ELSE h
        opened == IF lc.type # listType
                  THEN [type |-> listType, items |-> <<>>]
                  ELSE lc
        pushed == [opened EXCEPT !.items = Append(@, block.id)]
        nextIsSameList ==
            /\ i + 1 <= Len(ids)
            /\ \/ listType = "ul" /\ Block(ids[i + 1]).type = "bulleted_list_item"
               \/ listType = "ol" /\ Block(ids[i + 1]).type = "numbered_list_item"
    IN  IF nextIsSameList
        THEN [html |-> closedPrev, listContext |-> pushed]
        ELSE [html |-> appendHtml(closedPrev, closeList(v, pushed)),
              listContext |-> NoList]

\* `if (listContext.type) html += closeList(listContext)`
closeOpenList(v, h, lc) ==
    IF lc.type # "none" THEN appendHtml(h, closeList(v, lc)) ELSE h

\* One iteration of the loop on a list item (page-detail, homepage, sections).
ListItem(p) ==
    /\ AtBlock(p)
    /\ variant # "blog"
    /\ IsListItem(Current(p))
    /\ LET f == Top(stack[p])
           sc == Scope(p, f.d)
           after == listItemStep(variant, f.blocks, f.i, html[sc], listContext[sc])
       IN  /\ html' = [html EXCEPT ![sc] = after.html]
           /\ listContext' = [listContext EXCEPT ![sc] = after.listContext]
           /\ stack' = [stack EXCEPT ![p] = Pop(@) \o <<[f EXCEPT !.i = @ + 1]>>]
    /\ running' = p
    /\ UNCHANGED <<variant, roots, failing, active, result, sanVars, restVars>>

\* The html and listContext of scope sc after `if (listContext.type) { html +=
\* closeList(listContext); listContext = ... }`.
ClosedHtml(sc) == closeOpenList(variant, html[sc], listContext[sc])

\* One iteration on a block whose case sends no request.
Leaf(p) ==
    /\ AtBlock(p)
    /\ variant # "blog"
    /\ ~IsListItem(Current(p))
    /\ Request(variant, Current(p)) = "none"
    /\ LET f == Top(stack[p])
           sc == Scope(p, f.d)
           piece == blockToHtmlLocal(variant, Current(p))
       IN  IF piece = Threw
           THEN Raise(p, Pop(stack[p]))
           ELSE /\ html' = [html EXCEPT ![sc] = appendHtml(ClosedHtml(sc), piece)]
                /\ listContext' = [listContext EXCEPT ![sc] = NoList]
                /\ stack' = [stack EXCEPT ![p] = Pop(@) \o <<[f EXCEPT !.i = @ + 1]>>]
                /\ UNCHANGED result
    /\ running' = 0
    /\ UNCHANGED <<variant, roots, failing, active, sanVars, restVars>>

\* One iteration on a block whose case asks the Block Source: the request
\* is sent and the call waits.
Ask(p) ==
    /\ AtBlock(p)
    /\ variant # "blog"
    /\ ~IsListItem(Current(p))
    /\ Request(variant, Current(p)) # "none"
    /\ LET f == Top(stack[p])
           sc == Scope(p, f.d)
       IN  /\ html' = [html EXCEPT ![sc] = ClosedHtml(sc)]
           /\ listContext' = [listContext EXCEPT ![sc] = NoList]
           /\ stack' = [stack EXCEPT ![p] =
                          Append(@, Frame("wait", <<>>, 0, f.d, Current(p).id, <<>>))]
    /\ running' = 0
    /\ UNCHANGED <<variant, roots, failing, active, result, sanVars, restVars>>


\* case 'column_list': the local html before the first column, the markup
\* of one column, and the value returned after the last column.
columnListOpen(v) ==
    IF v = "page" THEN <<"<div class=\"notion-columns\">\n">> ELSE <<>>

columnHtml(v, content) ==
    IF v = "page" THEN <<"<div class=\"notion-column\">">> \o content \o <<"</div>\n">>
    ELSE <<"<div class=\"notion-column\">">> \o content \o <<"</div>">>

columnListHtml(v, acc) ==
    IF v = "page" THEN acc \o <<"</div>\n">>
    ELSE <<"<div class=\"notion-columns\">">> \o acc \o <<"</div>">>

\* What a frame that awaits the Block Source asked for.
Awaited(f) ==
    IF f.k = "colwait" THEN f.blocks[f.i] ELSE RequestTarget(Block(f.block))

Waiting(p) ==
    /\ CanRun(p)
    /\ Top(stack[p]).k \in {"wait", "colwait"}

\* blocksToHtml(notion, <the children>) is called: a new activation.
Enter(p, ids, d) ==
    /\ stack' = [stack EXCEPT ![p] = Append(@, Frame("loop", ids, 1, d, "", <<>>))]
    /\ html' = [html EXCEPT ![Scope(p, d)] = <<>>]
    /\ listContext' = [listContext EXCEPT ![Scope(p, d)] = NoList]
    /\ UNCHANGED result

\* The Block Source answers the request of the waiting case.
RespondOk(p) ==
    /\ Waiting(p)
    /\ Awaited(Top(stack[p])) \notin failing
    /\ LET f == Top(stack[p])
           b == Block(f.block)
       IN  CASE f.k = "colwait" ->
                  /\ Enter(p, Children(Awaited(f)), f.d + 1)
                  /\ running' = p
             [] f.k = "wait" /\ b.type \in {"toggle", "synced_block"} ->
                  /\ Enter(p, Children(Awaited(f)), f.d + 1)
                  /\ running' = p
             [] f.k = "wait" /\ b.type = "column_list" ->
                  /\ stack' = [stack EXCEPT ![p] = Pop(@) \o
                        <<Frame("cols", Children(Awaited(f)), 1, f.d, f.block,
                                columnListOpen(variant))>>]
                  /\ running' = p
                  /\ UNCHANGED <<html, listContext, result>>
             [] f.k = "wait" /\ b.type = "table" ->
                  /\ Deliver(p, Pop(stack[p]), tableHtml(variant, b, Children(Awaited(f))))
                  /\ running' = 0
             [] f.k = "wait" /\ b.type = "link_to_page" ->
                  /\ Deliver(p, Pop(stack[p]), linkToPageHtml(Page(Awaited(f))))
                  /\ running' = 0
    /\ UNCHANGED <<variant, roots, failing, active, sanVars, restVars>>

\* The Block Source rejects the request: the await throws.
RespondFail(p) ==
    /\ Waiting(p)
    /\ Awaited(Top(stack[p])) \in failing
    /\ Raise(p, stack[p])
    /\ running' = 0
    /\ UNCHANGED <<variant, roots, failing, active, sanVars, restVars>>

\* case 'column_list': one iteration of `for (const column of columns.results)`,
\* or the end of the loop.
ColumnNext(p) ==
    /\ CanRun(p)
    /\ Top(stack[p]).k = "cols"
    /\ LET f == Top(stack[p]) IN
       IF f.i > Len(f.blocks)
       THEN /\ Deliver(p, Pop(stack[p]), columnListHtml(variant, f.acc))
            /\ running' = 0
       ELSE LET column == Block(f.blocks[f.i]) IN
            /\ IF column.type = "column" /\ column.has_children
               THEN /\ stack' = [stack EXCEPT ![p] = Pop(@) \o <<[f EXCEPT !.k = "colwait"]>>]
                    /\ running' = 0
               ELSE /\ stack' = [stack EXCEPT ![p] = Pop(@) \o <<[f EXCEPT !.i = @ + 1]>>]
                    /\ running' = p
            /\ UNCHANGED <<html, listContext, result>>
    /\ UNCHANGED <<variant, roots, failing, active, sanVars, restVars>>

\* blocksToHtml leaves its loop: it closes a remaining list and returns html
\* to the handler or to the case that called it.
Return(p) ==
    /\ CanRun(p)
    /\ Top(stack[p]).k = "loop"
    /\ Top(stack[p]).i > Len(Top(stack[p]).blocks)
    /\ LET f == Top(stack[p])
           value == ClosedHtml(Scope(p, f.d))
           rest == Pop(stack[p])
       IN  IF rest = <<>>
           THEN /\ result' = [result EXCEPT ![p] = value]
                /\ stack' = [stack EXCEPT ![p] = <<>>]
                /\ UNCHANGED <<html, listContext>>
           ELSE LET w == Top(rest) IN
                IF w.k = "colwait"
                THEN /\ stack' = [stack EXCEPT ![p] = Pop(rest) \o
                           <<[w EXCEPT !.k = "cols", !.i = @ + 1,
                                       !.acc = @ \o columnHtml(variant, value)]>>]
                     /\ UNCHANGED <<html, listContext, result>>
                ELSE Deliver(p, Pop(rest),
                             IF Block(w.block).type = "toggle"
                             THEN toggleHtml(variant, Block(w.block), value)
                             ELSE value)
    /\ running' = 0
    /\ UNCHANGED <<variant, roots, failing, active, sanVars, restVars>>

\* blog-detail: one iteration of `for (const block of blocks)`; the loop has
\* no await.
BlogStep(p) ==
    /\ AtBlock(p)
    /\ variant = "blog"
    /\ LET f == Top(stack[p]) IN
       /\ html' = [html EXCEPT ![Scope(p, f.d)] = appendHtml(@, blogBlockHtml(Current(p)))]
       /\ stack' = [stack EXCEPT ![p] = Pop(@) \o <<[f EXCEPT !.i = @ + 1]>>]
    /\ running' = p
    /\ UNCHANGED <<variant, roots, failing, active, listContext, result, sanVars, restVars>>

(***************************************************************************)
(* sanitizeHref as a call.                                                 *)
(***************************************************************************)
SanitizeCall ==
    /\ sanPc = "call"
    /\ sanOut' = sanitizeHref(sanIn)
    /\ sanPc' = "done"
    /\ UNCHANGED <<sanIn, renderVars, restVars>>

(***************************************************************************)
(* Inputs                                                                  *)
(***************************************************************************)
MaxLen == 3

MaxConcLen == 2

\* The block sequences of a page: block ids are unique within a page.
RootSeqs(n) ==
    UNION {{r \in [1..m -> ids] : \A i, j \in 1..m : i # j => r[i] # r[j]}
              : m \in 0..n, ids \in PageContents}

Reverse(r) == [i \in 1..Len(r) |-> r[Len(r) + 1 - i]]

RenderIdle ==
    /\ stack = [p \in Calls |-> <<>>]
    /\ html = [sc \in Scopes |-> <<>>]
    /\ listContext = [sc \in Scopes |-> NoList]
    /\ result = [p \in Calls |-> Null]
    /\ running = 0

SanIdle ==
    /\ sanIn = Null
    /\ sanOut = Null
    /\ sanPc = "idle"

RtIdle ==
    /\ rtIn = <<>>
    /\ rtOut = Null
    /\ rtPc = "idle"

BlkIdle ==
    /\ blkIn = Blk(NoId, "none", <<>>, FALSE)
    /\ blkOut = Null
    /\ blkPc = "idle"

GabIdle ==
    /\ gabLen = 0
    /\ gabHasMore = TRUE
    /\ gabCursor = "undefined"
    /\ gabPc = "idle"

PrvIdle ==
    /\ prvIn = <<>>
    /\ prvOut = <<>>
    /\ prvPc = "idle"

SbmIdle ==
    /\ sbmIn = <<>>
    /\ sbmOut = <<>>
    /\ sbmPc = "idle"

\* a document where no script has run
NavIdle ==
    /\ mobileNavInitialized = FALSE
    /\ toggleClick = 0
    /\ docKeydown = 0
    /\ docClick = 0
    /\ navOpen = FALSE
    /\ ariaExpanded = "false"
    /\ navRebuilt = FALSE
    /\ dynPending = 0
    /\ navCalls = 0
    /\ navFocus = "other"

FnIdle ==
    /\ fnIn = <<>>
    /\ fnOut = <<>>
    /\ fnPc = "idle"

MoreIdle ==
    /\ GabIdle
    /\ PrvIdle
    /\ SbmIdle
    /\ NavIdle
    /\ hasToggle = TRUE
    /\ hasNavLinks = TRUE
    /\ FnIdle

RestIdle ==
    /\ RtIdle
    /\ BlkIdle
    /\ MoreIdle

\* One render call.
Init ==
    /\ variant \in Variants
    /\ \E r \in RootSeqs(MaxLen) :
          /\ roots = [p \in Calls |-> r]
          /\ failing \in SUBSET (FailCandidates \cap Reachable(r))
    /\ active = {1}
    /\ RenderIdle
    /\ SanIdle
    /\ RestIdle

Next ==
    \/ \E p \in Calls : Invoke(p)
    \/ \E p \in Calls : ListItem(p)
    \/ \E p \in Calls : Leaf(p)
    \/ \E p \in Calls : Ask(p)
    \/ \E p \in Calls : RespondOk(p)
    \/ \E p \in Calls : RespondFail(p)
    \/ \E p \in Calls : ColumnNext(p)
    \/ \E p \in Calls : Return(p)
    \/ \E p \in Calls : BlogStep(p)

Spec == Init /\ [][Next]_vars


\* Two render calls on the same Block Source, started in any order and
\* interleaved at their awaits.
InitConc ==
    /\ variant \in Variants
    /\ \E r \in RootSeqs(MaxConcLen) :
          /\ roots \in {[p \in Calls |-> r], <<r, Reverse(r)>>}
          /\ failing \in SUBSET (FailCandidates \cap Reachable(r))
    /\ active = Calls
    /\ RenderIdle
    /\ SanIdle
    /\ RestIdle

SpecConc == InitConc /\ [][Next]_vars

(***************************************************************************)
(* blocksToHtml as a function: the value the call returns (Threw when it   *)
(* rejects) for the blocks `ids`, against a Block Source that rejects the  *)
(* requests for the ids in F.                                              *)
(***************************************************************************)
RECURSIVE blocksToHtml(_, _, _)
RECURSIVE loopFrom(_, _, _, _, _, _)
RECURSIVE blockToHtml(_, _, _)
RECURSIVE columnsFrom(_, _, _, _, _)

blocksToHtml(v, ids, F) ==
    IF v = "blog"
    THEN Flatten([i \in 1..Len(ids) |-> blogBlockHtml(Block(ids[i]))])
    ELSE loopFrom(v, ids, 1, <<>>, NoList, F)

loopFrom(v, ids, i, h, lc, F) ==
    IF i > Len(ids) THEN closeOpenList(v, h, lc)
    ELSE IF IsListItem(Block(ids[i]))
    THEN LET after == listItemStep(v, ids, i, h, lc) IN
         loopFrom(v, ids, i + 1, after.html, after.listContext, F)
    ELSE LET piece == blockToHtml(v, Block(ids[i]), F) IN
         IF piece = Threw THEN Threw
         ELSE loopFrom(v, ids, i + 1, appendHtml(closeOpenList(v, h, lc), piece),
                       NoList, F)

blockToHtml(v, b, F) ==
    IF Request(v, b) = "none" THEN blockToHtmlLocal(v, b)
    ELSE LET target == RequestTarget(b)
             tried ==
                 IF target \in F THEN Threw
                 ELSE CASE b.type = "toggle" ->
                             LET c == blocksToHtml(v, Children(target), F) IN
                             IF c = Threw THEN Threw ELSE toggleHtml(v, b, c)
                        [] b.type = "synced_block" ->
                             blocksToHtml(v, Children(target), F)
                        [] b.type = "table" -> tableHtml(v, b, Children(target))
                        [] b.type = "link_to_page" -> linkToPageHtml(Page(target))
                        [] b.type = "column_list" ->
                             columnsFrom(v, Children(target), 1, columnListOpen(v), F)
         IN  IF tried = Threw /\ Catches(v, b) THEN catchHtml(v, b) ELSE tried

columnsFrom(v, cols, j, acc, F) ==
    IF j > Len(cols) THEN columnListHtml(v, acc)
    ELSE LET column == Block(cols[j]) IN
         IF column.type = "column" /\ column.has_children
         THEN IF column.id \in F THEN Threw
              ELSE LET c == blocksToHtml(v, Children(column.id), F) IN
                   IF c = Threw THEN Threw
                   ELSE columnsFrom(v, cols, j + 1, acc \o columnHtml(v, c), F)
         ELSE columnsFrom(v, cols, j + 1, acc, F)

(***************************************************************************)
(* Properties                                                              *)
(***************************************************************************)
Returned(p) == result[p] \notin {Null, Pending, Threw}

Settled(p) == result[p] \notin {Null, Pending}


\* The list structure of an HTML string: which list elements open and close,
\* with their items and the paragraphs between them, in order.
TokenMarks(tok) ==
    CASE tok \in {"<ul class=\"notion-list\">\n", "<ul class=\"notion-list\">"} -> <<"ul">>
      [] tok \in {"<ol class=\"notion-list\">\n", "<ol class=\"notion-list\">"} -> <<"ol">>
      [] tok \in {"  <li>", "<li>"} -> <<"li">>
      [] tok \in {"</ul>\n", "</ul>"} -> <<"/ul">>
      [] tok \in {"</ol>\n", "</ol>"} -> <<"/ol">>
      [] tok = "<ul><li>" -> <<"ul", "li">>
      [] tok = "<ol><li>" -> <<"ol", "li">>
      [] tok = "</li></ul>\n" -> <<"/ul">>
      [] tok = "</li></ol>\n" -> <<"/ol">>
      [] tok \in {"<p class=\"notion-paragraph\">", "<p>"} -> <<"p">>
      [] OTHER -> <<>>

ListShape(out) == Flatten([i \in 1..Len(out) |-> TokenMarks(out[i])])

\* The list structure the grouping rule asks for: one element per maximal
\* run of list items of one kind, a paragraph between the runs it separates.
CloseMark(open) == IF open = "none" THEN <<>> ELSE <<"/" \o open>>

RECURSIVE ExpectedShape(_, _, _)
ExpectedShape(ids, i, open) ==
    IF i > Len(ids) THEN CloseMark(open)
    ELSE LET b == Block(ids[i])
             kind == IF b.type = "bulleted_list_item" THEN "ul" ELSE "ol"
         IN  IF IsListItem(b)
             THEN (IF open = kind THEN <<"li">> ELSE CloseMark(open) \o <<kind, "li">>)
                  \o ExpectedShape(ids, i + 1, kind)
             ELSE CloseMark(open)
                  \o (IF b.type = "paragraph" THEN <<"p">> ELSE <<>>)
                  \o ExpectedShape(ids, i + 1, "none")

\* Pages made of list items, non-empty paragraphs and unsupported blocks.
FlatPage(ids) == Range(ids) \subseteq {"b1", "b2", "n1", "p1", "un"}

\* C1: for every block sequence the output holds exactly one list element per
\* maximal run of consecutive list items of one kind, with the run's items in
\* input order; a run ends at an item of the other kind or at a non-list block.
C1_ListGrouping ==
    \A p \in Calls :
        Returned(p) /\ FlatPage(roots[p]) =>
            ListShape(result[p]) = ExpectedShape(roots[p], 1, "none")

\* The grouping of C1 in the functions that close a list by looking ahead
\* (page-detail, homepage, homepage sections).
ListGroupingLookAhead ==
    \A p \in Calls :
        Returned(p) /\ FlatPage(roots[p]) /\ variant # "blog" =>
            ListShape(result[p]) = ExpectedShape(roots[p], 1, "none")

\* The text of the blocks: every block of the workspace carries capitals of
\* its own, so a capital in the output tells which block wrote it.
Capitals ==
    {"A", "B", "C", "D", "E", "F", "G", "H", "I", "J", "K", "L", "M", "N",
     "O", "P", "Q", "R", "S", "T", "U", "V", "W", "X", "Y", "Z"}

IsCapital(tok) == tok \in Capitals

OutLetters(out) == SelectSeq(out, IsCapital)

\* The capitals of a block sequence in document order: a block's own text,
\* then its children as the Block Source returns them.
RECURSIVE DocOrder(_)
DocOrder(ids) ==
    IF ids = <<>> THEN <<>>
    ELSE LET b == Block(Head(ids)) IN
         OutLetters(richTextToPlainText(b.rich_text))
         \o Flatten([c \in 1..Len(b.cells) |-> OutLetters(richTextToPlainText(b.cells[c]))])
         \o (IF b.page_id # NoId
             THEN OutLetters(richTextToPlainText(Page(b.page_id).title)) ELSE <<>>)
         \o DocOrder(Children(b.id))
         \o DocOrder(Tail(ids))

RECURSIVE IsSubseq(_, _)
IsSubseq(a, b) ==
    IF a = <<>> THEN TRUE
    ELSE IF b = <<>> THEN FALSE
    ELSE IF Head(a) = Head(b) THEN IsSubseq(Tail(a), Tail(b))
    ELSE IsSubseq(a, Tail(b))

\* C2: the returned HTML holds the blocks' renderings in input order, and in
\* every container the children's renderings in the order the Block Source
\* returned them: no block's markup comes before that of an earlier sibling.
\* Where page-detail renders every block (no request fails) the text of the
\* output is the text of the document, in document order.
C2_DocumentOrder ==
    \A p \in Calls :
        Returned(p) =>
            /\ IsSubseq(OutLetters(result[p]), DocOrder(roots[p]))
            /\ variant = "page" /\ failing = {} =>
                  OutLetters(result[p]) = DocOrder(roots[p])

C2_Witness ==
    /\ variant = "page"
    /\ Returned(1)
    /\ roots[1] = <<"cl", "tb", "b1">>
    /\ OutLetters(result[1]) = <<"G", "H", "I", "J", "L", "M", "A">>

\* C3: rendering the same block sequence twice, against a Block Source that
\* answers the same for the same id, yields identical HTML.
C3_Deterministic ==
    roots[1] = roots[2] /\ Settled(1) /\ Settled(2) => result[1] = result[2]

C3_Witness ==
    /\ roots[1] = roots[2]
    /\ Returned(1) /\ Returned(2)
    /\ Len(result[1]) > 4
    /\ result[1] = result[2]

\* C4: two render calls interleaved at their awaits share no mutable state:
\* each returns what it returns when it runs alone on the same blocks.
C4_Isolated ==
    \A p \in Calls :
        Settled(p) => result[p] = blocksToHtml(variant, roots[p], failing)

C4_Witness ==
    /\ roots[1] # roots[2]
    /\ Returned(1) /\ Returned(2)
    /\ result[1] # result[2]
    /\ \A p \in Calls : result[p] = blocksToHtml(variant, roots[p], failing)

\* A paragraph whose rich text is empty or whose spans' plain text is only
\* whitespace.
IsBlankParagraph(b) ==
    /\ b.type = "paragraph"
    /\ trim(richTextToPlainText(b.rich_text)) = <<>>

\* C5: every paragraph whose rich text is empty, or whose spans' plain text
\* is whitespace only, contributes the empty string to the output.
C5_BlankParagraphEmpty ==
    \A p \in Calls :
        /\ Returned(p)
        /\ \A i \in 1..Len(roots[p]) : IsBlankParagraph(Block(roots[p][i]))
        => result[p] = <<>>

\* The blocks of ids before position k, and after it.
Before(ids, k) == SubSeq(ids, 1, k - 1)

After(ids, k) == SubSeq(ids, k + 1, Len(ids))

\* What was written between the renderings of the blocks before position k
\* and of those after it.
Between(out, pre, post) == SubSeq(out, Len(pre) + 1, Len(out) - Len(post))

\* `out` is pre, then something, then post.
Frames(out, pre, post) ==
    /\ Len(out) >= Len(pre) + Len(post)
    /\ SubSeq(out, 1, Len(pre)) = pre
    /\ SubSeq(out, Len(out) - Len(post) + 1, Len(out)) = post

\* Nothing, or one HTML comment.
IsInvisible(piece) ==
    \/ piece = <<>>
    \/ /\ Len(piece) = 3
       /\ piece[1] = "<!-- Unsupported block type: "
       /\ piece[3] = " -->\n"

\* The types a function renders: the cases of its switch and the list items
\* its loop groups.
Rendered(v) ==
    Recognised(v) \cup {"bulleted_list_item", "numbered_list_item"}

\* C6: a block of a type the renderer does not recognise contributes no
\* visible markup, raises no exception and leaves the renderings of the
\* other blocks of the sequence as they are.
C6_UnknownBlock ==
    \A p \in Calls : \A k \in 1..Len(roots[p]) :
        Settled(p) /\ Block(roots[p][k]).type \notin Rendered(variant) =>
            LET pre == blocksToHtml(variant, Before(roots[p], k), failing)
                post == blocksToHtml(variant, After(roots[p], k), failing)
            IN  IF pre = Threw \/ post = Threw THEN result[p] = Threw
                ELSE /\ result[p] # Threw
                     /\ Frames(result[p], pre, post)
                     /\ IsInvisible(Between(result[p], pre, post))

C6_Witness ==
    /\ Returned(1)
    /\ roots[1] = <<"b1", "un", "b2">>
    /\ variant = "page"
    /\ "<!-- Unsupported block type: " \in Range(result[1])
    /\ ListShape(result[1]) = <<"ul", "li", "/ul", "ul", "li", "/ul">>

\* A toggle with children whose child request is rejected.
IsFailingToggle(b) ==
    /\ b.type = "toggle"
    /\ b.has_children
    /\ b.id \in failing

\* C7: when the child fetch of a toggle fails the render still completes:
\* the blocks before and after the toggle are rendered as if the fetch had
\* succeeded, the toggle's <details>/<summary> is there, its content is empty.
C7_ToggleFetchFails ==
    \A p \in Calls : \A k \in 1..Len(roots[p]) :
        /\ Settled(p)
        /\ "toggle" \in Recognised(variant)
        /\ IsFailingToggle(Block(roots[p][k]))
        => LET pre == blocksToHtml(variant, Before(roots[p], k), {})
               post == blocksToHtml(variant, After(roots[p], k), {})
           IN  /\ result[p] # Threw
               /\ Frames(result[p], pre, post)
               /\ Between(result[p], pre, post)
                    = toggleHtml(variant, Block(roots[p][k]), <<>>)

\* C7 in page-detail, where the toggle case has a try/catch.
ToggleFetchFailsPage ==
    variant = "page" => C7_ToggleFetchFails

BrokenLinkMarkup ==
    <<"<div class=\"notion-page-link notion-page-link--broken\">Link to page</div>\n">>

\* C8: when the page a link-to-page block refers to cannot be resolved, the
\* block renders a visible broken-link placeholder, no exception leaves
\* blockToHtml, and the other blocks of the page render unchanged.
C8_BrokenLink ==
    \A p \in Calls : \A k \in 1..Len(roots[p]) :
        /\ Settled(p)
        /\ variant = "page"
        /\ Block(roots[p][k]).type = "link_to_page"
        /\ Block(roots[p][k]).page_id \in failing
        => LET pre == blocksToHtml(variant, Before(roots[p], k), failing)
               post == blocksToHtml(variant, After(roots[p], k), failing)
           IN  /\ result[p] # Threw
               /\ Frames(result[p], pre, post)
               /\ Between(result[p], pre, post) = BrokenLinkMarkup

C8_Witness ==
    /\ variant = "page"
    /\ Returned(1)
    /\ roots[1] = <<"p1", "lk", "b1">>
    /\ "pg" \in failing
    /\ BrokenLinkMarkup[1] \in Range(result[1])
    /\ OutLetters(result[1]) = <<"X", "A">>

\* A span whose href has a scheme that is not allowed.
HasUnsafeHref(b) ==
    \E i \in 1..Len(b.rich_text) : b.rich_text[i].href = JsHref

HasSafeHref(b) ==
    \E i \in 1..Len(b.rich_text) :
        b.rich_text[i].href # Null /\ b.rich_text[i].href # JsHref

\* C9: a span whose href uses a disallowed scheme (javascript:alert(1)) is
\* rendered as unlinked text: the output has no <a> element for it.
C9_UnsafeHrefUnlinked ==
    \A p \in Calls :
        /\ Returned(p)
        /\ \E i \in 1..Len(roots[p]) : HasUnsafeHref(Block(roots[p][i]))
        /\ \A i \in 1..Len(roots[p]) : ~HasSafeHref(Block(roots[p][i]))
        => AnchorOpen \notin Range(result[p])

\* C9 in homepage and homepage sections, which pass the href to sanitizeHref.
UnsafeHrefUnlinkedHome ==
    variant \in {"home", "sections"} => C9_UnsafeHrefUnlinked


(***************************************************************************)
(* sanitizeHref on its own: the argument is any of SanInputs.              *)
(***************************************************************************)
SanPrefixes ==
    {<<"j", "a", "v", "a", "s", "c", "r", "i", "p", "t", ":">>,
     <<"J", "a", "v", "a", "S", "c", "r", "i", "p", "t", ":">>,
     <<"v", "b", "s", "c", "r", "i", "p", "t", ":">>,
     <<"d", "a", "t", "a", ":", "i", "m", "a", "g", "e", "/", "p", "n", "g", ";">>,
     <<"d", "a", "t", "a", ":", "i", "m", "a", "g", "e", "/", "s", "v", "g", "+", "x", "m", "l", ";">>,
     <<"d", "a", "t", "a", ":", "t", "e", "x", "t", "/", "h", "t", "m", "l", ",">>,
     <<"h", "t", "t", "p", ":", "/", "/">>,
     <<"h", "t", "t", "p", "s", ":", "/", "/">>,
     <<"H", "T", "T", "P", "S", ":", "/", "/">>,
     <<"m", "a", "i", "l", "t", "o", ":">>,
     <<"t", "e", "l", ":">>,
     <<"f", "t", "p", ":", "/", "/">>,
     <<"#">>,
     <<"/">>,
     <<"x", ".">>}

SanTails == {<<"a">>, <<"a", ":", "b">>}

SanPads == {<<>>, <<" ">>}

SanInputs ==
    {Null, <<>>}
    \cup {pad \o prefix \o tail : pad \in SanPads, prefix \in SanPrefixes, tail \in SanTails}

InitSan ==
    /\ variant = "home"
    /\ roots = [p \in Calls |-> <<>>]
    /\ failing = {}
    /\ active = {}
    /\ RenderIdle
    /\ sanIn \in SanInputs
    /\ sanOut = Null
    /\ sanPc = "call"
    /\ RestIdle

NextSan == SanitizeCall

SpecSan == InitSan /\ [][NextSan]_vars

\* The URLs the policy names: http:, https:, mailto:, tel:, a fragment, a
\* root-relative path, or a data:image/ URI that is not data:image/svg+xml.
\* Schemes are compared without regard to case or surrounding whitespace.
PolicyAccepts(url) ==
    /\ url # Null
    /\ LET t == toLowerCase(trim(url)) IN
       \/ StartsWith(t, <<"h", "t", "t", "p", ":">>)
       \/ StartsWith(t, <<"h", "t", "t", "p", "s", ":">>)
       \/ StartsWith(t, <<"m", "a", "i", "l", "t", "o", ":">>)
       \/ StartsWith(t, <<"t", "e", "l", ":">>)
       \/ StartsWith(t, <<"#">>)
       \/ StartsWith(t, <<"/">>)
       \/ /\ StartsWith(t, <<"d", "a", "t", "a", ":", "i", "m", "a", "g", "e", "/">>)
          /\ ~StartsWith(t, <<"d", "a", "t", "a", ":", "i", "m", "a", "g", "e", "/",
                              "s", "v", "g", "+", "x", "m", "l">>)

\* C10: the sanitizer returns a URL unchanged exactly when it is an http:,
\* https:, mailto: or tel: URL, starts with '#' or '/', or is a data:image/*
\* URI other than data:image/svg+xml; for every other URL it returns null.
C10_SanitizerPolicy ==
    sanPc = "done" =>
        IF PolicyAccepts(sanIn) THEN sanOut = sanIn ELSE sanOut = Null

\* What sanitizeHref does reject and accept.
SanitizerRejectsScripts ==
    sanPc = "done"
    /\ sanIn # Null
    /\ StartsWith(toLowerCase(trim(sanIn)),
                  <<"j", "a", "v", "a", "s", "c", "r", "i", "p", "t", ":">>)
    => sanOut = Null

(***************************************************************************)
(* richTextToHtml and blockToHtml on their own: the argument is any of     *)
(* RichTextInputs / BlockInputs, the function is applied once.             *)
(***************************************************************************)
RenderRichText ==
    /\ rtPc = "call"
    /\ rtOut' = richTextToHtml(variant, rtIn)
    /\ rtPc' = "done"
    /\ UNCHANGED <<rtIn, renderVars, sanVars, blkVars, moreVars>>

\* One block handed to the switch: blockToHtml, or for blog-detail one
\* iteration of the loop of blocksToHtml.
RenderBlock ==
    /\ blkPc = "call"
    /\ blkOut' = IF variant = "blog" THEN blogBlockCases(blkIn)
                 ELSE blockToHtmlCases(variant, blkIn)
    /\ blkPc' = "done"
    /\ UNCHANGED <<blkIn, renderVars, sanVars, rtVars, moreVars>>

\* The texts of spans: letters and each of the characters escapeHtml maps.
TextInputs ==
    {<<"a">>, <<"H", "i", " ", "x">>, <<"a", "<", "b">>, <<"a", ">", "b">>,
     <<"a", "&", "b">>, <<"a", "\"", "b">>, <<"a", "'", "b">>}

ColorInputs == {<<"default">>, <<"red">>, <<"red", "_background">>}

\* Every combination of the five annotations, with and without a colour.
AnnotatedSpans ==
    {[Span(<<"a", "&">>) EXCEPT !.bold = bo, !.italic = it, !.strikethrough = st,
                              !.underline = un, !.code = co, !.color = color] :
        bo \in BOOLEAN, it \in BOOLEAN, st \in BOOLEAN, un \in BOOLEAN,
        co \in BOOLEAN, color \in ColorInputs}

PlainSpans == {Span(text) : text \in TextInputs}

LinkSpans ==
    {[Span(text) EXCEPT !.href = href, !.bold = bo] :
        text \in {<<"a">>, <<"a", "<", "b">>}, href \in {HttpsHref, JsHref},
        bo \in BOOLEAN}

\* Mentions and inline equations, bare and with an annotation, a colour or a
\* link.
Decorate(span, bo, color, href) ==
    [span EXCEPT !.bold = bo, !.color = color, !.href = href]

SpecialSpans ==
    {Decorate(span, bo, color, href) :
        span \in {[Span(text) EXCEPT !.type = "mention", !.mention = "user"] :
                     text \in {<<"a">>, <<"a", "<", "b">>}}
              \cup {[Span(text) EXCEPT !.type = "mention", !.mention = "page"] :
                     text \in {<<"H", "i", " ", "x">>, <<"a", "&", "b">>}}
              \cup {[Span(<<"2", "0">>) EXCEPT !.type = "mention", !.mention = "date",
                                              !.date_start = <<"2", "0">>,
                                              !.date_end = e] :
                     e \in {<<>>, <<"2", "1">>}}
              \cup {[Span(<<"x", "<", "y">>) EXCEPT !.type = "equation",
                                                  !.expression = <<"x", "<", "y">>]},
        bo \in BOOLEAN, color \in {<<"default">>, <<"red">>},
        href \in {Null, HttpsHref}}

SpanInputs == AnnotatedSpans \cup PlainSpans \cup LinkSpans \cup SpecialSpans

RichTextInputs ==
    {<<>>}
    \cup {<<span>> : span \in SpanInputs}
    \cup {<<s, t>> : s \in PlainSpans, t \in LinkSpans}

HttpsPng == <<"h", "t", "t", "p", "s", ":", "/", "/", "e", ".", "c", "o", "/", "a", ".", "p", "n", "g">>

SvgData == <<"d", "a", "t", "a", ":", "i", "m", "a", "g", "e", "/", "s", "v", "g", "+", "x", "m", "l", ";", "x">>

UrlInputs == {Null, <<>>, HttpsPng, SvgData, JsHref}

CaptionInputs ==
    {<<>>, Text("c"), <<[Span(<<"a", "&", "b">>) EXCEPT !.bold = TRUE]>>}

MediaTypes ==
    {"image", "audio", "file", "pdf", "embed", "bookmark", "link_preview"}

MediaBlocks ==
    {[Blk("m", type, <<>>, FALSE) EXCEPT !.url = url, !.caption = caption] :
        type \in MediaTypes, url \in UrlInputs, caption \in CaptionInputs}

CalloutBlocks ==
    {[Blk("m", "callout", Text("c"), FALSE) EXCEPT !.icon_type = "none"]}
    \cup {[Blk("m", "callout", Text("c"), FALSE) EXCEPT
              !.icon_type = "emoji", !.icon = <<"U+2728">>, !.color = <<"blue">>]}
    \cup {[Blk("m", "callout", Text("c"), FALSE) EXCEPT !.icon_type = t, !.icon = url] :
              t \in {"external", "file"}, url \in {HttpsPng, SvgData, JsHref}}

\* Code blocks: plain, annotated and linked spans, with and without a
\* language and a caption.
CodeTexts ==
    {<<span>> : span \in PlainSpans}
    \cup {<<[Span(<<"a">>) EXCEPT !.bold = TRUE]>>,
          <<[Span(<<"a">>) EXCEPT !.href = HttpsHref]>>,
          <<[Span(<<"a">>) EXCEPT !.color = <<"red">>]>>,
          <<Span(<<"a", "<">>), [Span(<<"b">>) EXCEPT !.italic = TRUE, !.code = TRUE]>>,
          <<>>}

CodeBlocks ==
    {[Blk("m", "code", richText, FALSE) EXCEPT !.language = language,
                                               !.caption = caption] :
        richText \in CodeTexts, language \in {<<>>, <<"j", "s">>},
        caption \in {<<>>, Text("c")}}

\* Headings: the same plain text bare, annotated, coloured and linked, and
\* a text with a character that escapeHtml maps.
HeadingTexts ==
    {Text("a"),
     <<Span(<<"H", "i", " ", "x">>)>>,
     <<[Span(<<"H", "i", " ", "x">>) EXCEPT !.bold = TRUE]>>,
     <<[Span(<<"H", "i", " ", "x">>) EXCEPT !.color = <<"red">>]>>,
     <<[Span(<<"H", "i", " ", "x">>) EXCEPT !.href = HttpsHref]>>,
     <<Span(<<"H", "i">>), [Span(<<" ", "x">>) EXCEPT !.italic = TRUE]>>,
     <<Span(<<"a", "&", "b">>)>>,
     <<Span(<<" ", "Q", "!", "?">>)>>}

HeadingBlocks ==
    {Blk("m", type, richText, FALSE) :
        type \in {"heading_1", "heading_2", "heading_3"}, richText \in HeadingTexts}

\* Quotes and dividers.
OtherBlocks ==
    {Blk("m", "quote", richText, FALSE) : richText \in HeadingTexts}
    \cup {Blk("m", "divider", <<>>, FALSE)}

BlockInputs ==
    MediaBlocks \cup CalloutBlocks \cup CodeBlocks \cup HeadingBlocks
    \cup OtherBlocks

InitBlock ==
    /\ variant \in Variants
    /\ roots = [p \in Calls |-> <<>>]
    /\ failing = {}
    /\ active = {}
    /\ RenderIdle
    /\ SanIdle
    /\ MoreIdle
    /\ \/ /\ rtIn \in RichTextInputs
          /\ rtOut = Null
          /\ rtPc = "call"
          /\ BlkIdle
       \/ /\ blkIn \in BlockInputs
          /\ blkOut = Null
          /\ blkPc = "call"
          /\ RtIdle

NextBlock ==
    \/ RenderRichText
    \/ RenderBlock

SpecBlock == InitBlock /\ [][NextBlock]_vars

\* s holds part as a contiguous piece.
ContainsSeq(s, part) ==
    \E i \in 0..(Len(s) - Len(part)) : SubSeq(s, i + 1, i + Len(part)) = part

\* The URL of a media block, of an embed, a bookmark or a link preview, or of
\* a callout's icon image (Null: the block has none).
UrlOf(b) ==
    IF b.type = "callout"
    THEN IF b.icon_type \in {"external", "file"} THEN b.icon ELSE Null
    ELSE b.url

HasUrl(b) ==
    /\ b.type \in MediaTypes \cup {"callout"}
    /\ ~Falsy(UrlOf(b))

\* C11: every URL written into an href or src attribute of a media block, an
\* embed, a bookmark, a link preview or a callout icon has been accepted by
\* the URL sanitizer: a URL the sanitizer rejects is nowhere in the output.
C11_MediaUrlsSanitized ==
    blkPc = "done" /\ HasUrl(blkIn) /\ sanitizeHref(UrlOf(blkIn)) = Null =>
        /\ ~ContainsSeq(Explode(blkOut), UrlOf(blkIn))
        /\ ~ContainsSeq(Explode(blkOut), Explode(escapeHtml(UrlOf(blkIn))))

\* A URL the sanitizer accepts is written as the source of the image.
MediaUrlWritten ==
    /\ blkPc = "done" /\ variant = "page" /\ blkIn.type = "image"
    /\ blkIn.url = HttpsPng
    /\ ContainsSeq(blkOut, HttpsPng)

\* What a span shows once it is escaped: its plain text, or for page-detail
\* the text its mention or equation template shows.
ShownText(v, span) ==
    IF v # "page" \/ span.type = "text" THEN escapeHtml(span.plain_text)
    ELSE IF span.type = "equation" THEN escapeHtml(span.expression)
    ELSE CASE span.mention = "user" -> <<"@">> \o escapeHtml(span.plain_text)
           [] span.mention = "page" -> escapeHtml(span.plain_text)
           [] span.mention = "date" ->
                escapeHtml(span.date_start)
                \o (IF span.date_end # <<>>
                    THEN <<" U+2192 ">> \o escapeHtml(span.date_end) ELSE <<>>)

ShownRichText(v, richText) ==
    Flatten([i \in 1..Len(richText) |-> ShownText(v, richText[i])])

\* The characters of a piece of HTML outside its tags.
VisibleText(markup) == stripTags(Explode(markup))

RECURSIVE IndexOf(_, _, _)
IndexOf(s, tok, i) ==
    IF i > Len(s) THEN 0
    ELSE IF s[i] = tok THEN i
    ELSE IndexOf(s, tok, i + 1)

\* The value of the alt attribute of a rendered image.
AltClose ==
    {"\" loading=\"lazy\" />\n  ", "\" loading=\"lazy\">\n        ",
     "\" loading=\"lazy\">\n            "}

AltOf(out) ==
    LET from == IndexOf(out, "\" alt=\"", 1)
        to == CHOOSE j \in (from + 1)..Len(out) : out[j] \in AltClose
    IN  SubSeq(out, from + 1, to - 1)

\* What a rendered code block holds between <code ...> and </code>.
CodeClose == {"</code></pre>\n", "</code></pre>"}

CodeContent(out) ==
    LET from == IndexOf(out, "\">", 1)
        to == CHOOSE j \in (from + 1)..Len(out) : out[j] \in CodeClose
    IN  SubSeq(out, from + 1, to - 1)

\* C12: every piece of source text that reaches the output (span plain text,
\* mention text, code block text, captions) has each of < > & " ' replaced
\* by its entity exactly once: never raw, never escaped twice.
C12_EscapedOnce ==
    /\ rtPc = "done" =>
          VisibleText(rtOut) = Explode(ShownRichText(variant, rtIn))
    /\ blkPc = "done" /\ blkIn.type = "code" =>
          Explode(CodeContent(blkOut)) = Explode(escapeHtml(codePlainText(blkIn)))
    /\ /\ blkPc = "done" /\ blkIn.type = "image" /\ ~Falsy(blkIn.url)
       /\ blkIn.caption # <<>>
       => Explode(AltOf(blkOut))
            = Explode(escapeHtml(richTextToPlainText(blkIn.caption)))

\* Where the text is escaped once: homepage rich text.
EscapedOnceHome ==
    rtPc = "done" /\ variant = "home" =>
        VisibleText(rtOut) = Explode(ShownRichText(variant, rtIn))

\* The wrapper a token opens ("+name") or closes ("-name").
WrapperMarks ==
    "<strong>" :> "+strong" @@ "</strong>" :> "-strong" @@
    "<em>" :> "+em" @@ "</em>" :> "-em" @@
    "<del>" :> "+del" @@ "</del>" :> "-del" @@
    "<u>" :> "+u" @@ "</u>" :> "-u" @@
    "<code class=\"notion-inline-code\">" :> "+code" @@ "<code>" :> "+code" @@
    "</code>" :> "-code" @@
    "<span class=\"notion-bg-" :> "+span" @@
    "<span class=\"notion-color-" :> "+span" @@ "</span>" :> "-span"

\* The tokens of an opening colour span after its first: the colour name and
\* the end of the tag.
ColorTail == {"red", "blue", "\">"}

\* The wrappers of a rendered span from the outside in, "." for a character
\* of text.
RECURSIVE Nesting(_)
Nesting(out) ==
    IF out = <<>> THEN <<>>
    ELSE IF Head(out) \in DOMAIN WrapperMarks
      THEN <<WrapperMarks[Head(out)]>> \o Nesting(Tail(out))
    ELSE IF Head(out) \in ColorTail THEN Nesting(Tail(out))
    ELSE <<".">> \o Nesting(Tail(out))

\* Bold innermost, then italic, strikethrough, underline, inline code.
OpenedOutsideIn(span) ==
    (IF span.code THEN <<"+code">> ELSE <<>>)
    \o (IF span.underline THEN <<"+u">> ELSE <<>>)
    \o (IF span.strikethrough THEN <<"+del">> ELSE <<>>)
    \o (IF span.italic THEN <<"+em">> ELSE <<>>)
    \o (IF span.bold THEN <<"+strong">> ELSE <<>>)

ClosedInsideOut(span) ==
    (IF span.bold THEN <<"-strong">> ELSE <<>>)
    \o (IF span.italic THEN <<"-em">> ELSE <<>>)
    \o (IF span.strikethrough THEN <<"-del">> ELSE <<>>)
    \o (IF span.underline THEN <<"-u">> ELSE <<>>)
    \o (IF span.code THEN <<"-code">> ELSE <<>>)

IsAnnotatedText(richText) ==
    /\ Len(richText) = 1
    /\ richText[1].type = "text"
    /\ richText[1].href = Null

\* C13: for every combination of the five annotations the wrappers nest in
\* one fixed order: bold innermost, then italic, strikethrough, underline,
\* inline code, the colour span outside all of them; the colour span is there
\* only when a colour is present and is not 'default'.
C13_AnnotationNesting ==
    rtPc = "done" /\ IsAnnotatedText(rtIn) =>
        LET span == rtIn[1]
            shape == Nesting(rtOut)
            colored == "+span" \in Range(shape)
            text == [i \in 1..Len(span.plain_text) |-> "."]
        IN  /\ shape = (IF colored THEN <<"+span">> ELSE <<>>)
                       \o OpenedOutsideIn(span) \o text \o ClosedInsideOut(span)
                       \o (IF colored THEN <<"-span">> ELSE <<>>)
            /\ colored => span.color # <<"default">>
            /\ variant \in {"page", "home"} /\ span.color # <<"default">> => colored

C13_Witness ==
    /\ rtPc = "done"
    /\ variant = "page"
    /\ IsAnnotatedText(rtIn)
    /\ rtIn[1].bold /\ rtIn[1].italic /\ ~rtIn[1].code
    /\ rtOut = <<"<span class=\"notion-color-", "red", "\">", "<em>", "<strong>",
                 "a", "&amp;", "</strong>", "</em>", "</span>">>

(***************************************************************************)
(* getAllBlocks: the pagination loop.  The Block Source answers each       *)
(* request with any number of results up to page_size, any has_more and    *)
(* any next_cursor: a source that misbehaves is one of them.               *)
(***************************************************************************)
PageSize == 100

SafetyLimit == 500

MaxBlocks == 700

\* The sizes of response.results.
ResultSizes == {0, 1, PageSize}

Cursors == {"undefined", "cursor"}

\* The functions whose loop has the safety limit.
HasSafetyLimit(v) == v \in {"home", "sections"}

\* One iteration of `while (hasMore)`: the request, the answer, the three
\* assignments and, where the function has it, the safety limit.
GabRequest ==
    /\ gabPc = "loop"
    /\ gabHasMore
    /\ \E n \in ResultSizes, more \in BOOLEAN, cursor \in Cursors :
          /\ gabLen + n <= MaxBlocks
          /\ gabLen' = gabLen + n
          /\ gabHasMore' = IF HasSafetyLimit(variant) /\ gabLen + n > SafetyLimit
                           THEN FALSE ELSE more
          /\ gabCursor' = cursor
    /\ UNCHANGED <<gabPc, notGab>>

\* The loop condition fails: return allBlocks.
GabReturn ==
    /\ gabPc = "loop"
    /\ ~gabHasMore
    /\ gabPc' = "done"
    /\ UNCHANGED <<gabLen, gabHasMore, gabCursor, notGab>>

InitGab ==
    /\ variant \in Variants
    /\ roots = [p \in Calls |-> <<>>]
    /\ failing = {}
    /\ active = {}
    /\ RenderIdle
    /\ SanIdle
    /\ RtIdle
    /\ BlkIdle
    /\ FnIdle
    /\ PrvIdle
    /\ SbmIdle
    /\ NavIdle
    /\ hasToggle = TRUE
    /\ hasNavLinks = TRUE
    /\ gabLen = 0
    /\ gabHasMore = TRUE
    /\ gabCursor = "undefined"
    /\ gabPc = "loop"

NextGab ==
    \/ GabRequest
    \/ GabReturn

\* The loop runs as long as it can: the event loop resumes every await.
SpecGab == InitGab /\ [][NextGab]_vars /\ WF_vars(NextGab)

\* C14: the pagination loop of getAllBlocks terminates after a bounded
\* number of requests against every Block Source, one that reports
\* has_more = true on every response included.
C14_PaginationTerminates == <>(gabPc = "done")

\* With the safety limit the loop never holds more than the limit and one
\* page of blocks.
SafetyLimitHolds ==
    HasSafetyLimit(variant) => gabLen <= SafetyLimit + PageSize

IsHeading(b) == b.type \in {"heading_1", "heading_2", "heading_3"}

\* The value of the id attribute of a rendered heading.
IdOf(b, out) ==
    LET to == IndexOf(out, "\" class=\"notion-" \o HeadingTag(b.type) \o "\">", 1)
    IN  SubSeq(out, 2, to - 1)

HasId(b, out) == out[1] = "<" \o HeadingTag(b.type) \o " id=\""

\* C15: the id of a rendered heading is the slug of the heading's plain
\* text (lower-cased, each run of non-alphanumeric characters one hyphen,
\* no leading or trailing hyphen), so headings with the same plain text get
\* the same id whatever annotations their spans carry.
C15_HeadingIdIsSlug ==
    blkPc = "done" /\ IsHeading(blkIn) /\ HasId(blkIn, blkOut) =>
        IdOf(blkIn, blkOut) = slugify(richTextToPlainText(blkIn.rich_text))

\* homepage takes the id from the plain text.
HeadingIdIsSlugHome ==
    variant = "home" => C15_HeadingIdIsSlug

(***************************************************************************)
(* The listing endpoints: blog-list, docs-tree and pages-list.  A request  *)
(* is a method and a `preview` query parameter; the environment is         *)
(* PREVIEW_SECRET and whether the variables the endpoint needs are set;    *)
(* the source is a list of pages, each with a Status and a Publish Date.   *)
(***************************************************************************)
\* undefined: a variable of the environment that is not set, a query
\* parameter that is not there.
Undefined == "<undefined>"

Endpoints == {"blog-list", "docs-tree", "pages-list"}

Methods == {"GET", "OPTIONS", "POST"}

Secrets == {Undefined, "", "s"}

PreviewParams == {Undefined, "", "s", "t"}

\* Status: "" is a page without the property.  Publish Date: "none", or
\* whether it is before or after now.
PageKinds ==
    {[status |-> st, publishDate |-> "none"] : st \in {"Draft", "Published", ""}}
    \cup {[status |-> "Scheduled", publishDate |-> d] : d \in {"none", "past", "future"}}

MaxPages == 2

PageLists == UNION {[1..n -> PageKinds] : n \in 0..MaxPages}

\* !!x for a string or undefined
Truthy(x) == x # Undefined /\ x # ""

isPreviewMode(endpoint, secret, preview) ==
    IF endpoint = "pages-list" THEN preview = secret
    ELSE Truthy(secret) /\ Truthy(preview) /\ preview = secret

\* page.properties?.Status?.select?.name || 'Published'
StatusOf(page) == IF page.status = "" THEN "Published" ELSE page.status

\* The draft and schedule filter: TRUE when the page is listed.
Listed(endpoint, preview, page) ==
    \/ preview
    \/ /\ StatusOf(page) # "Draft"
       /\ IF endpoint = "docs-tree"
          THEN ~(StatusOf(page) = "Scheduled" /\ page.publishDate \in {"none", "future"})
          ELSE ~(StatusOf(page) = "Scheduled" /\ page.publishDate = "future")

Response(code, pages) == [statusCode |-> code, pages |-> pages]

\* exports.handler of a listing endpoint
ListHandler ==
    /\ prvPc = "call"
    /\ \E code \in {500, 503} :
          prvOut' =
            IF prvIn.method = "OPTIONS" THEN Response(200, {})
            ELSE IF prvIn.method # "GET" THEN Response(405, {})
            ELSE IF ~prvIn.configured THEN Response(503, {})
            ELSE IF prvIn.fails THEN Response(code, {})
            ELSE LET preview == isPreviewMode(prvIn.endpoint, prvIn.secret,
                                              prvIn.preview)
                 IN  Response(200, {i \in DOMAIN prvIn.pages :
                                      Listed(prvIn.endpoint, preview, prvIn.pages[i])})
    /\ prvPc' = "done"
    /\ UNCHANGED <<prvIn, notPrv>>

InitList ==
    /\ variant = "page"
    /\ roots = [p \in Calls |-> <<>>]
    /\ failing = {}
    /\ active = {}
    /\ RenderIdle
    /\ SanIdle
    /\ RtIdle
    /\ BlkIdle
    /\ FnIdle
    /\ GabIdle
    /\ SbmIdle
    /\ NavIdle
    /\ hasToggle = TRUE
    /\ hasNavLinks = TRUE
    /\ prvIn \in [endpoint : Endpoints, method : Methods, configured : BOOLEAN,
                  fails : BOOLEAN, secret : Secrets, preview : PreviewParams,
                  pages : PageLists]
    /\ prvOut = <<>>
    /\ prvPc = "call"

NextList == ListHandler

SpecList == InitList /\ [][NextList]_vars

\* C16: in the listing endpoints preview mode is on only when PREVIEW_SECRET
\* is configured and the request's preview parameter equals it; in every
\* other request no page whose Status is 'Draft' is in the response.
C16_DraftsOnlyInPreview ==
    /\ prvPc = "done"
    /\ ~(prvIn.secret # Undefined /\ prvIn.preview = prvIn.secret)
    => \A i \in prvOut.pages : prvIn.pages[i].status # "Draft"

\* blog-list and docs-tree test that the secret is set.
DraftsOnlyInPreviewBlogDocs ==
    prvPc = "done" /\ prvIn.endpoint # "pages-list" => C16_DraftsOnlyInPreview

(***************************************************************************)
(* submit-to-notion.  The body of the request is JSON, so `name` is any    *)
(* JSON value: a string, or an array holding one string.  A string is kept *)
(* by its number of characters; an e-mail address is kept as runs of one   *)
(* character, so that the limits of the format check are within reach.     *)
(***************************************************************************)
NameLimit == 100

EmailLimit == 254

\* a label of the domain: one character, up to 61, one character
LabelLimit == 63

NameLengths == {0, 1, NameLimit, NameLimit + 1}

NameInputs ==
    {[kind |-> "undefined", chars |-> 0]}
    \cup [kind : {"string", "array"}, chars : NameLengths]

\* name.length: of a string its characters, of the array its one element
LengthOf(name) == IF name.kind = "string" THEN name.chars ELSE 1

\* !name
NameFalsy(name) ==
    \/ name.kind = "undefined"
    \/ name.kind = "string" /\ name.chars = 0

LongRun == EmailLimit + 1

Runs ==
    {[ch |-> c, n |-> 1] : c \in {"a", "@", ".", "-"}}
    \cup {[ch |-> "a", n |-> LongRun]}

MaxEmailRuns == 4

EmailTexts == UNION {[1..n -> Runs] : n \in 0..MaxEmailRuns}

EmailInputs ==
    {[defined |-> FALSE, text |-> <<>>]}
    \cup [defined : {TRUE}, text : EmailTexts]

RECURSIVE TextLength(_)
TextLength(text) ==
    IF text = <<>> THEN 0 ELSE Head(text).n + TextLength(Tail(text))

\* !email
EmailFalsy(email) == ~email.defined \/ TextLength(email.text) = 0

\* [a-zA-Z0-9.!#$%&'*+/=?^_`{|}~-]
LocalClass == {"a", ".", "-"}

\* [a-zA-Z0-9]
AlnumClass == {"a"}

\* every label is at most one character, 61 and one more
RECURSIVE LabelsFit(_, _)
LabelsFit(domain, acc) ==
    IF domain = <<>> THEN acc <= LabelLimit
    ELSE IF Head(domain).ch = "."
         THEN acc <= LabelLimit /\ LabelsFit(Tail(domain), 0)
         ELSE LabelsFit(Tail(domain), acc + Head(domain).n)

\* label(\.label)* with label = alnum, then nothing or up to 61 of
\* alnum and '-' and one alnum
DomainMatches(domain) ==
    /\ domain # <<>>
    /\ \A i \in DOMAIN domain : domain[i].ch \in AlnumClass \cup {"-", "."}
    /\ domain[1].ch \in AlnumClass
    /\ domain[Len(domain)].ch \in AlnumClass
    /\ \A i \in DOMAIN domain :
          domain[i].ch = "." =>
             /\ domain[i].n = 1
             /\ domain[i - 1].ch \in AlnumClass
             /\ domain[i + 1].ch \in AlnumClass
    /\ LabelsFit(domain, 0)

\* emailRegex.test(email)
emailRegex(text) ==
    LET ats == {i \in DOMAIN text : text[i].ch = "@"}
    IN  /\ Cardinality(ats) = 1
        /\ LET at == CHOOSE i \in ats : TRUE
           IN  /\ text[at].n = 1
               /\ at > 1
               /\ \A i \in 1..(at - 1) : text[i].ch \in LocalClass
               /\ DomainMatches(SubSeq(text, at + 1, Len(text)))

\* the status of the catch block, by error.code
CatchStatus(code) ==
    IF code \in {"unauthorized", "object_not_found"} THEN 503
    ELSE IF code = "validation_error" THEN 400
    ELSE 500

ErrorCodes == {"none", "unauthorized", "object_not_found", "validation_error", "other"}

Submitted(code, created) == [statusCode |-> code, created |-> created]

\* exports.handler of submit-to-notion; `created` is whether
\* notion.pages.create was called
SubmitHandler ==
    /\ sbmPc = "call"
    /\ \E err \in ErrorCodes :
          sbmOut' =
            IF sbmIn.method = "OPTIONS" THEN Submitted(200, FALSE)
            ELSE IF sbmIn.method # "POST" THEN Submitted(405, FALSE)
            ELSE IF ~sbmIn.token THEN Submitted(503, FALSE)
            ELSE IF ~sbmIn.databaseId THEN Submitted(503, FALSE)
            ELSE IF ~sbmIn.bodyParses THEN Submitted(CatchStatus("other"), FALSE)
            ELSE IF Truthy(sbmIn.website) THEN Submitted(200, FALSE)
            ELSE IF NameFalsy(sbmIn.name) \/ EmailFalsy(sbmIn.email)
                 THEN Submitted(400, FALSE)
            ELSE IF LengthOf(sbmIn.name) < 1 \/ LengthOf(sbmIn.name) > NameLimit
                 THEN Submitted(400, FALSE)
            ELSE IF \/ ~emailRegex(sbmIn.email.text)
                    \/ TextLength(sbmIn.email.text) > EmailLimit
                 THEN Submitted(400, FALSE)
            ELSE IF err = "none" THEN Submitted(200, TRUE)
            ELSE Submitted(CatchStatus(err), TRUE)
    /\ sbmPc' = "done"
    /\ UNCHANGED <<sbmIn, notSbm>>

\* The method, the two variables of the environment and whether the body
\* is JSON.
Scenarios ==
    {[method |-> "POST", token |-> TRUE, databaseId |-> TRUE, bodyParses |-> TRUE],
     [method |-> "POST", token |-> TRUE, databaseId |-> TRUE, bodyParses |-> FALSE],
     [method |-> "POST", token |-> FALSE, databaseId |-> TRUE, bodyParses |-> TRUE],
     [method |-> "POST", token |-> TRUE, databaseId |-> FALSE, bodyParses |-> TRUE],
     [method |-> "GET", token |-> TRUE, databaseId |-> TRUE, bodyParses |-> TRUE],
     [method |-> "OPTIONS", token |-> TRUE, databaseId |-> TRUE, bodyParses |-> TRUE]}

Websites == {Undefined, "", "x"}

InitSubmit ==
    /\ variant = "page"
    /\ roots = [p \in Calls |-> <<>>]
    /\ failing = {}
    /\ active = {}
    /\ RenderIdle
    /\ SanIdle
    /\ RtIdle
    /\ BlkIdle
    /\ FnIdle
    /\ GabIdle
    /\ PrvIdle
    /\ NavIdle
    /\ hasToggle = TRUE
    /\ hasNavLinks = TRUE
    /\ \E sc \in Scenarios, w \in Websites, nm \in NameInputs, em \in EmailInputs :
          sbmIn = [method |-> sc.method, token |-> sc.token,
                   databaseId |-> sc.databaseId, bodyParses |-> sc.bodyParses,
                   website |-> w, name |-> nm, email |-> em]
    /\ sbmOut = <<>>
    /\ sbmPc = "call"

NextSubmit == SubmitHandler

SpecSubmit == InitSubmit /\ [][NextSubmit]_vars

\* C17: submit-to-notion calls notion.pages.create only when the request is
\* a POST, NOTION_TOKEN and NOTION_DATABASE_ID are set, the honeypot field
\* 'website' is empty, name and email are both present, the name is at most
\* 100 characters and the email passes the format check.
C17_CreateOnlyWhenValid ==
    sbmPc = "done" /\ sbmOut.created =>
       /\ sbmIn.method = "POST"
       /\ sbmIn.token
       /\ sbmIn.databaseId
       /\ sbmIn.website \in {Undefined, ""}
       /\ sbmIn.name.kind # "undefined"
       /\ sbmIn.email.defined
       /\ sbmIn.name.chars <= NameLimit
       /\ emailRegex(sbmIn.email.text)

\* When the name is a string the checks admit what the claim admits.
CreateOnlyWhenValidString ==
    sbmPc = "done" /\ sbmIn.name.kind # "array" => C17_CreateOnlyWhenValid

CreatedSome == sbmPc = "done" /\ sbmOut.created /\ sbmIn.name.kind = "string"

(***************************************************************************)
(* The navigation of the browser, js/utils.js.  The document has or has    *)
(* not the toggle and the list of links; the listeners are counted, and a  *)
(* click on the toggle runs every click listener of the toggle and then,   *)
(* as the event bubbles, every click listener of the document.             *)
(***************************************************************************)
MaxNavCalls == 4

\* initMobileNav without the flag
initMobileNavNoFlag ==
    IF ~hasToggle \/ ~hasNavLinks
    THEN UNCHANGED listenerVars
    ELSE /\ mobileNavInitialized' = TRUE
         /\ toggleClick' = toggleClick + 1
         /\ docKeydown' = docKeydown + 1
         /\ docClick' = docClick + 1

initMobileNav ==
    IF mobileNavInitialized \/ ~hasToggle \/ ~hasNavLinks
    THEN UNCHANGED listenerVars
    ELSE /\ mobileNavInitialized' = TRUE
         /\ toggleClick' = toggleClick + 1
         /\ docKeydown' = docKeydown + 1
         /\ docClick' = docClick + 1

\* initDynamicNav up to its first await
StartDynamicNav ==
    dynPending' = IF hasNavLinks THEN dynPending + 1 ELSE dynPending

\* NotionCMS.utils.initMobileNav()
CallInitMobileNav ==
    /\ navCalls < MaxNavCalls
    /\ navCalls' = navCalls + 1
    /\ initMobileNav
    /\ UNCHANGED <<hasToggle, hasNavLinks, navOpen, ariaExpanded, navRebuilt,
                   dynPending, navFocus, notNav>>

\* NotionCMS.utils.initDynamicNav()
CallInitDynamicNav ==
    /\ navCalls < MaxNavCalls
    /\ navCalls' = navCalls + 1
    /\ StartDynamicNav
    /\ UNCHANGED <<listenerVars, hasToggle, hasNavLinks, navOpen, ariaExpanded,
                   navRebuilt, navFocus, notNav>>

initNavigation ==
    /\ navCalls < MaxNavCalls
    /\ navCalls' = navCalls + 1
    /\ initMobileNav
    /\ StartDynamicNav
    /\ UNCHANGED <<hasToggle, hasNavLinks, navOpen, ariaExpanded, navRebuilt,
                   navFocus, notNav>>

\* initDynamicNav from the answer of the navigation function on: with
\* items the content of .nav-links is replaced and initMobileNav is called,
\* otherwise the static navigation stays.
DynamicNavReturn ==
    /\ dynPending > 0
    /\ dynPending' = dynPending - 1
    /\ \E items \in BOOLEAN :
          IF items
          THEN /\ navRebuilt' = TRUE
               /\ initMobileNav
          ELSE UNCHANGED <<navRebuilt, listenerVars>>
    /\ UNCHANGED <<hasToggle, hasNavLinks, navOpen, ariaExpanded, navCalls, navFocus,
                   notNav>>

\* classList.toggle('nav-open') k times
Toggled(open, k) == IF k % 2 = 1 THEN ~open ELSE open

\* A click on the toggle: its listeners run; those of the document find the
\* target inside the toggle and do nothing.  Whether the click moves the
\* focus to the toggle is the browser's choice.
ClickToggle ==
    /\ hasToggle
    /\ navOpen' = Toggled(navOpen, toggleClick)
    /\ ariaExpanded' = IF toggleClick = 0 THEN ariaExpanded
                       ELSE IF navOpen' THEN "true" ELSE "false"
    /\ navFocus' \in {navFocus, "toggle"}
    /\ UNCHANGED <<listenerVars, hasToggle, hasNavLinks, navRebuilt, dynPending,
                   navCalls, notNav>>

\* A click outside the toggle and the links
ClickOutside ==
    /\ docClick > 0
    /\ navOpen' = FALSE
    /\ ariaExpanded' = "false"
    /\ navFocus' = "other"
    /\ UNCHANGED <<listenerVars, hasToggle, hasNavLinks, navRebuilt, dynPending,
                   navCalls, notNav>>

\* The Escape key
PressEscape ==
    /\ docKeydown > 0
    /\ navOpen
    /\ navOpen' = FALSE
    /\ ariaExpanded' = "false"
    /\ navFocus' = "toggle"
    /\ UNCHANGED <<listenerVars, hasToggle, hasNavLinks, navRebuilt, dynPending,
                   navCalls, notNav>>

InitNav ==
    /\ variant = "page"
    /\ roots = [p \in Calls |-> <<>>]
    /\ failing = {}
    /\ active = {}
    /\ RenderIdle
    /\ SanIdle
    /\ RtIdle
    /\ BlkIdle
    /\ FnIdle
    /\ GabIdle
    /\ PrvIdle
    /\ SbmIdle
    /\ NavIdle
    /\ hasToggle \in BOOLEAN
    /\ hasNavLinks \in BOOLEAN

NextNav ==
    \/ CallInitMobileNav
    \/ CallInitDynamicNav
    \/ initNavigation
    \/ DynamicNavReturn
    \/ ClickToggle
    \/ ClickOutside
    \/ PressEscape

SpecNav == InitNav /\ [][NextNav]_vars

\* C18: initMobileNav is idempotent: over any sequence of calls, from
\* initNavigation and from initDynamicNav after it rebuilds the nav, the
\* click, keydown and outside-click handlers are registered at most once,
\* so one click on the toggle flips the nav-open state exactly once.
C18_MobileNavIdempotent ==
    /\ [](toggleClick <= 1 /\ docKeydown <= 1 /\ docClick <= 1)
    /\ [][ClickToggle /\ mobileNavInitialized => navOpen' = ~navOpen]_vars

\* The nav was opened by a click after a second call found the flag set
\* and the dynamic navigation had replaced the links.
C18_Witness ==
    /\ mobileNavInitialized
    /\ navRebuilt
    /\ navCalls >= 2
    /\ toggleClick = 1
    /\ navOpen

(***************************************************************************)
(* Mentions and inline equations in page-detail.                           *)
(***************************************************************************)
IsSpecial(span) ==
    \/ span.type = "equation"
    \/ span.type = "mention" /\ span.mention \in {"user", "date", "page"}

\* The span without annotations, colour and href: what is left is its
\* kind-specific template.
Bare(span) ==
    [span EXCEPT !.bold = FALSE, !.italic = FALSE, !.strikethrough = FALSE,
                 !.underline = FALSE, !.code = FALSE, !.color = <<"default">>,
                 !.href = Null]

KindTemplate(span) == spanToHtmlPage(Bare(span))

\* The wrappers of an ordinary text span, around `inner`.
Wrapped(span, inner) ==
    LET a == annotate(span, inner, "<code class=\"notion-inline-code\">")
        c == colorize(span, a)
    IN  IF span.href # Null /\ span.href # <<>>
        THEN <<AnchorOpen>> \o span.href \o <<AnchorBlank>> \o c \o <<"</a>">>
        ELSE c

\* C19: for a span that is a mention or an inline equation, the
\* kind-specific template replaces the plain-text rendering and the span's
\* annotations, colour and href are then still wrapped around that template,
\* exactly as they are for an ordinary text span.
C19_WrappersAroundTemplate ==
    /\ rtPc = "done"
    /\ variant = "page"
    /\ \A i \in DOMAIN rtIn : IsSpecial(rtIn[i])
    => rtOut = Flatten([i \in DOMAIN rtIn |->
                          Wrapped(rtIn[i], KindTemplate(rtIn[i]))])

\* A mention or an equation without annotation, colour and href is its
\* template, and an ordinary span has its wrappers.
TemplateOrWrappers ==
    /\ rtPc = "done"
    /\ variant = "page"
    /\ \A i \in DOMAIN rtIn : rtIn[i] = Bare(rtIn[i]) \/ ~IsSpecial(rtIn[i])
    => rtOut = Flatten([i \in DOMAIN rtIn |->
                          IF IsSpecial(rtIn[i]) THEN KindTemplate(rtIn[i])
                          ELSE Wrapped(rtIn[i], escapeHtml(rtIn[i].plain_text))])

(***************************************************************************)
(* Code blocks.                                                            *)
(***************************************************************************)
\* The block with its text in one span without annotations and link.
PlainCode(b) == [b EXCEPT !.rich_text = <<Span(codePlainText(b))>>]

RenderedBlock(v, b) ==
    IF v = "blog" THEN blogBlockCases(b) ELSE blockToHtmlCases(v, b)

\* C20: the content of a rendered code block is the HTML-escaped
\* concatenation of its spans' plain text only: annotations and links on the
\* spans add no markup inside <code>, so two code blocks with the same plain
\* text render identically.
C20_CodeIsPlainText ==
    blkPc = "done" /\ blkIn.type = "code" =>
       /\ Explode(CodeContent(blkOut)) = Explode(escapeHtml(codePlainText(blkIn)))
       /\ blkOut = RenderedBlock(variant, PlainCode(blkIn))

\* page-detail and the homepage take the plain text.
CodeIsPlainTextLocal ==
    blkPc = "done" /\ variant # "blog" => C20_CodeIsPlainText

(***************************************************************************)
(* case 'table' on its own: a table block with its two header flags and    *)
(* the children the Block Source lists for it.                             *)
(***************************************************************************)
MaxRows == 3

\* Two rows of the workspace and a child that is no row.
RowIds == {"r1", "r2", "p1"}

TableInputs ==
    [b : {[Block("tb") EXCEPT !.has_column_header = ch, !.has_row_header = rh] :
             ch \in BOOLEAN, rh \in BOOLEAN},
     rows : UNION {[1..n -> RowIds] : n \in 0..MaxRows}]

RenderTable ==
    /\ fnPc = "call"
    /\ fnOut' = tableHtml(variant, fnIn.b, fnIn.rows)
    /\ fnPc' = "done"
    /\ UNCHANGED <<fnIn, notFn>>

InitTable ==
    /\ variant \in {"page", "home"}
    /\ roots = [p \in Calls |-> <<>>]
    /\ failing = {}
    /\ active = {}
    /\ RenderIdle
    /\ SanIdle
    /\ RtIdle
    /\ BlkIdle
    /\ GabIdle
    /\ PrvIdle
    /\ SbmIdle
    /\ NavIdle
    /\ hasToggle = TRUE
    /\ hasNavLinks = TRUE
    /\ fnIn \in TableInputs
    /\ fnOut = <<>>
    /\ fnPc = "call"

NextTable == RenderTable

SpecTable == InitTable /\ [][NextTable]_vars

\* The structure of a rendered table: its wrappers, rows and cells.
TableMarks ==
    "<thead>\n" :> "+thead" @@ "</thead>\n" :> "-thead" @@
    "<tbody>\n" :> "+tbody" @@ "</tbody>\n" :> "-tbody" @@
    "<tr>\n" :> "tr" @@ "<tr>" :> "tr" @@
    "  <th>" :> "th" @@ "<th>" :> "th" @@
    "  <td>" :> "td" @@ "<td>" :> "td"

RECURSIVE Structure(_)
Structure(out) ==
    IF out = <<>> THEN <<>>
    ELSE (IF Head(out) \in DOMAIN TableMarks THEN <<TableMarks[Head(out)]>> ELSE <<>>)
         \o Structure(Tail(out))

\* The cells of a row that is not the header row.
BodyRow(b, row) ==
    <<"tr">> \o [c \in 1..Len(row.cells) |->
                   IF b.has_row_header /\ c = 1 THEN "th" ELSE "td"]

\* The structure the description gives a table whose children are `rows`.
TableShape(b, rows) ==
    IF b.has_column_header /\ rows # <<>>
    THEN <<"+thead", "tr">> \o [c \in 1..Len(Block(rows[1]).cells) |-> "th"]
         \o <<"-thead">>
         \o (IF Len(rows) > 1
             THEN <<"+tbody">>
                  \o Flatten([r \in 1..(Len(rows) - 1) |->
                                 BodyRow(b, Block(rows[r + 1]))])
                  \o <<"-tbody">>
             ELSE <<>>)
    ELSE Flatten([r \in 1..Len(rows) |-> BodyRow(b, Block(rows[r]))])

AllRows(rows) == \A r \in DOMAIN rows : Block(rows[r]).type = "table_row"

\* C21: in a rendered table, when hasColumnHeader is set the first row is
\* wrapped in <thead> with <th> cells and the remaining rows form the body;
\* when hasRowHeader is set the first cell of every row that is not the
\* header row is a <th>; all other cells are <td>, and every <thead>/<tbody>
\* that is opened is closed and none is closed without being opened.
C21_TableStructure ==
    fnPc = "done" /\ AllRows(fnIn.rows) =>
        Structure(fnOut) = TableShape(fnIn.b, fnIn.rows)

\* page-detail gives a table of rows the structure described.
TableStructurePage ==
    fnPc = "done" /\ variant = "page" => C21_TableStructure

(***************************************************************************)
(* The renderer on pages of containers: synced blocks, tables, column      *)
(* lists and toggles, against a Block Source that rejects at most one of   *)
(* the requests for their children.                                        *)
(***************************************************************************)
MaxContLen == 2

ContBlocks == {"sy", "sr", "tb", "cl", "tl", "p1", "b1"}

ContFail == {"sy", "tb", "cl", "c1", "c2", "tl"}

ContSeqs ==
    UNION {{r \in [1..m -> ContBlocks] : \A i, j \in 1..m : i # j => r[i] # r[j]}
              : m \in 0..MaxContLen}

InitCont ==
    /\ variant \in Variants
    /\ \E r \in ContSeqs :
          /\ roots = [p \in Calls |-> r]
          /\ failing \in {{}} \cup {{id} : id \in ContFail}
    /\ active = {1}
    /\ RenderIdle
    /\ SanIdle
    /\ RestIdle

SpecCont == InitCont /\ [][Next]_vars

\* The children a synced block stands for: those of the block it refers
\* to, or its own.
SyncedChildren(b) ==
    IF b.synced_from # NoId THEN Children(b.synced_from) ELSE Children(b.id)

\* C22: a synced block contributes no markup of its own: its output equals
\* blocksToHtml applied to the children of the referenced block when it has
\* synced_from, and to its own children when it is the original.
C22_SyncedNoMarkup ==
    \A p \in Calls : \A k \in 1..Len(roots[p]) :
        /\ Returned(p)
        /\ variant = "page"
        /\ failing = {}
        /\ Block(roots[p][k]).type = "synced_block"
        => LET pre == blocksToHtml(variant, Before(roots[p], k), {})
               post == blocksToHtml(variant, After(roots[p], k), {})
           IN  /\ Frames(result[p], pre, post)
               /\ Between(result[p], pre, post)
                    = blocksToHtml(variant, SyncedChildren(Block(roots[p][k])), {})

\* A page with a reference to a synced block has been rendered.
C22_Witness ==
    /\ Returned(1)
    /\ variant = "page"
    /\ failing = {}
    /\ \E k \in 1..Len(roots[1]) : roots[1][k] = "sr"
    /\ "O" \in Range(result[1])

\* The container at position k of the page whose child fetch the Block
\* Source rejects: the block itself, the block a synced block refers to, or
\* one column of a column list.
FailedChild(v, b) ==
    IF b.type \notin Recognised(v) \/ Request(v, b) # "children" THEN {}
    ELSE CASE b.type \in {"table", "synced_block"} -> {RequestTarget(b)} \cap failing
           [] b.type = "column_list" ->
                ({b.id} \cup {c \in Range(Children(b.id)) :
                                 Block(c).type = "column" /\ Block(c).has_children})
                \cap failing
           [] OTHER -> {}

\* A column list with the content of the column `bad` replaced by `gap`.
ColumnsWithout(v, b, bad, gap) ==
    columnListHtml(v,
        columnListOpen(v)
        \o Flatten([j \in 1..Len(Children(b.id)) |->
              LET column == Block(Children(b.id)[j]) IN
              IF column.id = bad THEN gap
              ELSE IF column.type = "column" /\ column.has_children
              THEN columnHtml(v, blocksToHtml(v, Children(column.id), {}))
              ELSE <<>>]))

\* What a container may contribute when the fetch of `bad` fails: the
\* successful rendering with the contribution of the child empty.
LocalFailure(v, b, bad) ==
    CASE b.type = "synced_block" -> {<<>>}
      [] b.type = "table" -> {<<>>, tableHtml(v, b, <<>>)}
      [] b.type = "column_list" /\ bad = b.id ->
           {<<>>, columnListHtml(v, columnListOpen(v))}
      [] b.type = "column_list" /\ bad # b.id ->
           {ColumnsWithout(v, b, bad, <<>>),
            ColumnsWithout(v, b, bad, columnHtml(v, <<>>))}

\* The failure at position k of the page of call p stays local.
ChildFailureLocalAt(p, k) ==
    LET b == Block(roots[p][k]) IN
    /\ Settled(p)
    /\ variant \in {"page", "home"}
    /\ FailedChild(variant, b) # {}
    => LET pre == blocksToHtml(variant, Before(roots[p], k), failing)
           post == blocksToHtml(variant, After(roots[p], k), failing)
           bad == CHOOSE id \in FailedChild(variant, b) : TRUE
       IN  \/ pre = Threw
           \/ post = Threw
           \/ /\ result[p] # Threw
              /\ Frames(result[p], pre, post)
              /\ Between(result[p], pre, post) \in LocalFailure(variant, b, bad)

\* C23: when a child fetch fails for a table, a column list, one column of
\* a column list, or a synced block, the render does not abort and the
\* failure is local: the output equals the output of a successful render
\* with only that child's contribution replaced by the empty string, so
\* columns already rendered are kept and no error text is emitted.
C23_ChildFailureLocal ==
    \A p \in Calls : \A k \in 1..Len(roots[p]) : ChildFailureLocalAt(p, k)

\* page-detail keeps the failure of a synced block and of the request for
\* the columns local.
ChildFailureLocalPage ==
    \A p \in Calls : \A k \in 1..Len(roots[p]) :
        /\ variant = "page"
        /\ \/ Block(roots[p][k]).type = "synced_block"
           \/ Block(roots[p][k]).type = "column_list" /\ failing = {"cl"}
        => ChildFailureLocalAt(p, k)

\* The container at position k of the page of call p sends a request whose
\* first response has has_more set.
SpansPages(p, k) ==
    LET b == Block(roots[p][k]) IN
    /\ Returned(p)
    /\ failing = {}
    /\ Request(variant, b) = "children"
    /\ Rest(RequestTarget(b)) # <<>>

\* The text of the blocks `ids` is in the output of call p.
RenderedIn(p, ids) == Range(DocOrder(ids)) \subseteq Range(result[p])

\* C24: for every container block whose children span more than one page of
\* the Block Source (has_more is true on the first response), all of its
\* children are fetched and rendered, not only the first page.
C24_AllChildPagesRendered ==
    \A p \in Calls : \A k \in 1..Len(roots[p]) :
        SpansPages(p, k) =>
            LET target == RequestTarget(Block(roots[p][k])) IN
            RenderedIn(p, Children(target) \o Rest(target))

\* The children of the first response are rendered.
FirstChildPageRendered ==
    \A p \in Calls : \A k \in 1..Len(roots[p]) :
        SpansPages(p, k) =>
            RenderedIn(p, Children(RequestTarget(Block(roots[p][k]))))

(***************************************************************************)
(* fetchWithRetry(url, options, timeout, retries) of src/js/utils.js: one  *)
(* call, the outcome of every fetch chosen by the network and the timer.   *)
(***************************************************************************)
MaxRetries == 3

\* Statuses a response carries; the names of the errors an attempt throws:
\* a network failure, and the abort the timer raises after `timeout` ms.
Statuses == {200, 404, 500, 503}
FetchErrors == {"TypeError", "AbortError"}

\* A response, and a thrown error.
FetchResponse(status) == [kind |-> "response", status |-> status]
FetchError(name) == [kind |-> "error", name |-> name]

\* response.ok
Ok(status) == status >= 200 /\ status <= 299

\* Math.pow(2, attempt) * 1000
Backoff(attempt) == (2 ^ attempt) * 1000

\* The condition of the retry branch, retrying every response that is not ok.
shouldRetryNotOk(status, attempt, retries) ==
    ~Ok(status) /\ attempt < retries

\* if (!response.ok && response.status >= 500 && attempt < retries)
shouldRetry(status, attempt, retries) ==
    ~Ok(status) /\ status >= 500 /\ attempt < retries

\* for (...; attempt <= retries; ...) { try { ... await fetch(...)
StartAttempt ==
    /\ fnPc = "loop"
    /\ fnOut.attempt <= fnIn.retries
    /\ fnPc' = "fetch"
    /\ UNCHANGED <<fnIn, fnOut, notFn>>

\* The fetch resolves: the response is returned, or the call sleeps and
\* goes round again.
FetchResolves ==
    /\ fnPc = "fetch"
    /\ \E status \in Statuses :
          IF shouldRetry(status, fnOut.attempt, fnIn.retries)
             THEN /\ fnOut' = [fnOut EXCEPT
                                 !.fetches = Append(@, FetchResponse(status)),
                                 !.sleeps = Append(@, Backoff(fnOut.attempt))]
                  /\ fnPc' = "sleep"
             ELSE /\ fnOut' = [fnOut EXCEPT
                                 !.fetches = Append(@, FetchResponse(status)),
                                 !.settled = FetchResponse(status)]
                  /\ fnPc' = "returned"
    /\ UNCHANGED <<fnIn, notFn>>

\* The fetch rejects, or the timer aborts it: the catch block.
FetchRejects ==
    /\ fnPc = "fetch"
    /\ \E name \in FetchErrors :
          LET caught == IF name = "AbortError"
                           THEN FetchError("Request timed out") ELSE FetchError(name)
          IN IF fnOut.attempt < fnIn.retries
                THEN /\ fnOut' = [fnOut EXCEPT
                                    !.fetches = Append(@, FetchError(name)),
                                    !.lastError = caught,
                                    !.sleeps = Append(@, Backoff(fnOut.attempt))]
                     /\ fnPc' = "sleep"
                ELSE /\ fnOut' = [fnOut EXCEPT
                                    !.fetches = Append(@, FetchError(name)),
                                    !.lastError = caught,
                                    !.attempt = @ + 1]
                     /\ fnPc' = "loop"
    /\ UNCHANGED <<fnIn, notFn>>

\* sleep() resolves: `continue`, or the end of the catch block; attempt++.
Wake ==
    /\ fnPc = "sleep"
    /\ fnOut' = [fnOut EXCEPT !.attempt = @ + 1]
    /\ fnPc' = "loop"
    /\ UNCHANGED <<fnIn, notFn>>

\* throw lastError
ThrowLast ==
    /\ fnPc = "loop"
    /\ fnOut.attempt > fnIn.retries
    /\ fnOut' = [fnOut EXCEPT !.settled = fnOut.lastError]
    /\ fnPc' = "thrown"
    /\ UNCHANGED <<fnIn, notFn>>

InitRetry ==
    /\ variant = "page"
    /\ roots = [p \in Calls |-> <<>>]
    /\ failing = {}
    /\ active = {}
    /\ RenderIdle
    /\ SanIdle
    /\ RtIdle
    /\ BlkIdle
    /\ GabIdle
    /\ PrvIdle
    /\ SbmIdle
    /\ NavIdle
    /\ hasToggle = TRUE
    /\ hasNavLinks = TRUE
    /\ fnIn \in [retries : 0..MaxRetries]
    /\ fnOut = [attempt |-> 0, fetches |-> <<>>, sleeps |-> <<>>,
                lastError |-> [kind |-> "undefined"],
                settled |-> [kind |-> "pending"]]
    /\ fnPc = "loop"

NextRetry ==
    \/ StartAttempt
    \/ FetchResolves
    \/ FetchRejects
    \/ Wake
    \/ ThrowLast

\* Every step of the call is taken in the end: a fetch resolves, rejects or
\* is aborted by the timer after `timeout` ms, and a sleep resolves.
SpecRetry == InitRetry /\ [][NextRetry]_vars /\ WF_vars(NextRetry)

RetrySettled == fnPc \in {"returned", "thrown"}

\* The outcome of attempt i is one after which the code goes round again.
Retryable(i) ==
    \/ fnOut.fetches[i].kind = "error"
    \/ fnOut.fetches[i].kind = "response" /\ fnOut.fetches[i].status >= 500

\* At most retries + 1 attempts.
AttemptsBounded == Len(fnOut.fetches) <= fnIn.retries + 1

\* A response below 500 is the last attempt and is what the call returns.
FirstBelow500Returned ==
    \A i \in 1..Len(fnOut.fetches) :
        fnOut.fetches[i].kind = "response" /\ fnOut.fetches[i].status < 500 =>
            /\ i = Len(fnOut.fetches)
            /\ fnPc = "returned"
            /\ fnOut.settled = fnOut.fetches[i]

\* Every attempt that another attempt follows ended in a 5xx response, a
\* thrown error or a timeout.
RetryOnlyAfterFailure ==
    \A i \in 1..Len(fnOut.fetches) : i < Len(fnOut.fetches) => Retryable(i)

\* C25: fetchWithRetry makes at most retries + 1 fetch attempts and then
\* settles; it returns the first response whose status is below 500 without
\* making another attempt, and retries only after a 5xx response or a thrown
\* or timed-out attempt.
C25_RetryBoundedAndSettles ==
    /\ [](AttemptsBounded /\ FirstBelow500Returned /\ RetryOnlyAfterFailure)
    /\ <>RetrySettled

\* A call that was retried twice and then returned a response below 500.
C25_Witness ==
    /\ fnPc = "returned"
    /\ Len(fnOut.fetches) = 3
    /\ fnOut.settled = FetchResponse(404)
    /\ fnOut.fetches[1] = FetchResponse(503)
    /\ fnOut.fetches[2] = FetchError("AbortError")

(***************************************************************************)
(* blog-list and blog-detail over the child pages of the blog page: the    *)
(* slug blog-list gives a post, and the post blog-detail finds for a slug. *)
(***************************************************************************)
MaxPosts == 2

UntitledPost == <<"U", "n", "t", "i", "t", "l", "e", "d", " ", "P", "o", "s", "t">>

\* The plain text of the title property.
BlogTitles ==
    {<<"A", " ", "b">>, <<"a", "!", "b">>, <<"A", "b">>, <<"!">>, <<" ">>}

\* properties.Slug.rich_text[0].plain_text; <<>> is a page without the
\* property, or with an empty one: both are falsy.
SlugTexts == {<<>>, <<"a", "-", "b">>, <<"A", " ", "b">>}

BlogPages ==
    [title : BlogTitles, Slug : SlugTexts, status : {"Published", "Draft"},
     publishDate : {"none"}]

\* The child pages of the blog page, in the order of the Block Source; the
\* id of a page is its position.
ChildPageLists == UNION {[1..n -> BlogPages] : n \in 0..MaxPosts}

\* titleProp.title.map(t => t.plain_text || '').join('').trim() || 'Untitled Post'
postTitle(page) ==
    IF trim(page.title) = <<>> THEN UntitledPost ELSE trim(page.title)

\* blog-list: customSlug || title.toLowerCase().replace(...).replace(...)
postSlug(page) ==
    IF page.Slug # <<>> THEN page.Slug ELSE slugify(postTitle(page))

\* blog-list: the posts it returns, each with the id and the slug.
blogList(pages, preview) ==
    LET all == [i \in 1..Len(pages) |-> [id |-> i, slug |-> postSlug(pages[i])]]
        keep(post) == Listed("blog-list", preview, pages[post.id])
    IN SelectSeq(all, keep)

\* (customSlug && customSlug === slug) || (!customSlug && titleSlug === slug)
slugMatches(page, slug) ==
    \/ page.Slug # <<>> /\ page.Slug = slug
    \/ page.Slug = <<>> /\ slugify(postTitle(page)) = slug

\* blog-detail for the query parameter slug: the first child page that
\* matches.
blogDetail(pages, slug) ==
    IF slug = <<>> THEN [statusCode |-> 400]
    ELSE LET found == {i \in 1..Len(pages) : slugMatches(pages[i], slug)} IN
         IF found = {} THEN [statusCode |-> 404]
         ELSE LET targetPageId == CHOOSE i \in found : \A j \in found : i <= j IN
              [statusCode |-> 200, id |-> targetPageId,
               title |-> postTitle(pages[targetPageId]),
               slug |-> postSlug(pages[targetPageId])]

\* A GET of blog-list.
BlogListRequest ==
    /\ fnPc = "list"
    /\ fnOut' = [posts |-> blogList(fnIn.pages,
                                    isPreviewMode("blog-list", fnIn.secret, fnIn.preview)),
                 asked |-> 0, detail |-> [statusCode |-> 0]]
    /\ fnPc' = "listed"
    /\ UNCHANGED <<fnIn, notFn>>

\* A GET of blog-detail with the slug of one of the posts listed.
BlogDetailRequest ==
    /\ fnPc = "listed"
    /\ \E k \in 1..Len(fnOut.posts) :
          fnOut' = [fnOut EXCEPT !.asked = k,
                                 !.detail = blogDetail(fnIn.pages, fnOut.posts[k].slug)]
    /\ fnPc' = "done"
    /\ UNCHANGED <<fnIn, notFn>>

InitSlug ==
    /\ variant = "blog"
    /\ roots = [p \in Calls |-> <<>>]
    /\ failing = {}
    /\ active = {}
    /\ RenderIdle
    /\ SanIdle
    /\ RtIdle
    /\ BlkIdle
    /\ GabIdle
    /\ PrvIdle
    /\ SbmIdle
    /\ NavIdle
    /\ hasToggle = TRUE
    /\ hasNavLinks = TRUE
    /\ fnIn \in [pages : ChildPageLists, secret : {"s"}, preview : {Undefined, "s"}]
    /\ fnOut = <<>>
    /\ fnPc = "list"

NextSlug == BlogListRequest \/ BlogDetailRequest

SpecSlug == InitSlug /\ [][NextSlug]_vars

\* The post whose slug was sent to blog-detail.
AskedPost == fnOut.posts[fnOut.asked]

RoundTrip ==
    /\ fnOut.detail.statusCode = 200
    /\ fnOut.detail.id = AskedPost.id
    /\ fnOut.detail.slug = AskedPost.slug

\* C26: for every post that blog-list returns with slug s, a blog-detail
\* request with slug = s answers 200 with that same post id and with slug s,
\* for every set of child pages of the blog page.
C26_SlugRoundTrip == fnPc = "done" => RoundTrip

\* No other post that blog-list returns has the slug asked for, and the
\* slug is not empty.
SlugIsOwn ==
    /\ AskedPost.slug # <<>>
    /\ \A i \in 1..Len(fnIn.pages) :
          postSlug(fnIn.pages[i]) = AskedPost.slug => i = AskedPost.id

\* The round trip holds for a post whose slug is its own.
SlugRoundTripWhenOwn == fnPc = "done" /\ SlugIsOwn => RoundTrip

(***************************************************************************)
(* createPageTypeResolver(allPages).getPageType(pageId) of the page-type   *)
(* utility.  The ancestors of a page in any parent map form a chain that   *)
(* ends at a page without a parent in the data, or runs into a cycle: the  *)
(* fetched pages are 1..n, page i below page i + 1, and the parent of page *)
(* n is none, a page that was not fetched, or a page of the chain.         *)
(***************************************************************************)
MaxChain == 12

maxDepth == 10

\* An id as Notion or the environment writes it: with hyphens, or plain.
Id(n, form) == [n |-> n, form |-> form]

\* No id: an unset environment variable, a page without a page parent.
NullId == Id(0, "plain")

\* if (!id) return null; return id.replace(/-/g, '').toLowerCase()
normalizeId(id) == IF id = NullId THEN NullId ELSE Id(id.n, "plain")

\* parentMap: the normalized parent of a fetched page, NullId where the map
\* has no entry.
parentMap(in, id) ==
    IF id.n \in 1..(in.n - 1) THEN normalizeId(Id(id.n + 1, "hyphen"))
    ELSE IF id.n = in.n THEN normalizeId(in.last)
    ELSE NullId

\* normalizedParents[id]: the entries are written in the order blog,
\* landing, docs, a later one replacing an earlier one with the same id.
normalizedParents(in, id) ==
    IF id = NullId THEN Undefined
    ELSE IF normalizeId(in.docs) = id THEN "docs"
    ELSE IF normalizeId(in.landing) = id THEN "landing"
    ELSE IF normalizeId(in.blog) = id THEN "blog"
    ELSE Undefined

Found(in, id) ==
    [type |-> normalizedParents(in, id), parentId |-> id.n]

Unknown == [type |-> "unknown", parentId |-> 0]

\* One test of `while (currentId && depth < maxDepth)` and the body.
walkStep(in, currentId, depth) ==
    IF ~(currentId # NullId /\ depth < maxDepth)
       THEN [pc |-> "done", result |-> Unknown]
    ELSE IF normalizedParents(in, currentId) # Undefined
       THEN [pc |-> "done", result |-> Found(in, currentId)]
    ELSE IF parentMap(in, currentId) = NullId
       THEN [pc |-> "done", result |-> Unknown]
    ELSE IF normalizedParents(in, parentMap(in, currentId)) # Undefined
       THEN [pc |-> "done", result |-> Found(in, parentMap(in, currentId))]
    ELSE [pc |-> "loop", currentId |-> parentMap(in, currentId), depth |-> depth + 1]

\* getPageType(pageId) up to the loop.
GetPageTypeCall ==
    /\ fnPc = "call"
    /\ LET normalizedPageId == normalizeId(fnIn.pageId) IN
       IF normalizedParents(fnIn, normalizedPageId) # Undefined
          THEN /\ fnOut' = [fnOut EXCEPT !.result = Found(fnIn, normalizedPageId)]
               /\ fnPc' = "done"
          ELSE /\ fnOut' = [fnOut EXCEPT !.currentId = normalizedPageId, !.depth = 0]
               /\ fnPc' = "loop"
    /\ UNCHANGED <<fnIn, notFn>>

\* One iteration of the loop, or its end.
GetPageTypeWalk ==
    /\ fnPc = "loop"
    /\ LET step == walkStep(fnIn, fnOut.currentId, fnOut.depth) IN
       IF step.pc = "done"
          THEN /\ fnOut' = [fnOut EXCEPT !.result = step.result]
               /\ fnPc' = "done"
          ELSE /\ fnOut' = [fnOut EXCEPT !.currentId = step.currentId,
                                         !.depth = step.depth]
               /\ fnPc' = "loop"
    /\ UNCHANGED <<fnIn, notFn>>

\* The fetched pages 1..n, the parent of page n, the three environment
\* variables, and the page asked for: page 1.
TypeInputs ==
    UNION {[n : {n},
            last : {NullId} \cup {Id(k, "hyphen") : k \in 1..(n + 1)},
            blog : {NullId} \cup {Id(k, "hyphen") : k \in 1..(MaxChain + 1)},
            landing : {NullId},
            docs : {NullId} \cup {Id(k, "plain") : k \in 1..(MaxChain + 1)},
            pageId : {Id(1, "hyphen"), Id(1, "plain")}] : n \in 1..MaxChain}

InitType ==
    /\ variant = "page"
    /\ roots = [p \in Calls |-> <<>>]
    /\ failing = {}
    /\ active = {}
    /\ RenderIdle
    /\ SanIdle
    /\ RtIdle
    /\ BlkIdle
    /\ GabIdle
    /\ PrvIdle
    /\ SbmIdle
    /\ NavIdle
    /\ hasToggle = TRUE
    /\ hasNavLinks = TRUE
    /\ fnIn \in TypeInputs
    /\ fnOut = [currentId |-> NullId, depth |-> 0, result |-> [type |-> "", parentId |-> 0]]
    /\ fnPc = "call"

NextType == GetPageTypeCall \/ GetPageTypeWalk

\* getPageType is synchronous: a call that started runs to its return.
SpecType == InitType /\ [][NextType]_vars /\ WF_vars(NextType)

\* The type of the nearest configured page among id and its ancestors by the
\* parent links; a chain of the data visits at most MaxChain + 1 pages
\* before it ends or repeats.
RECURSIVE NearestType(_, _, _)
NearestType(in, id, fuel) ==
    IF id = NullId THEN "unknown"
    ELSE IF normalizedParents(in, id) # Undefined THEN normalizedParents(in, id)
    ELSE IF fuel = 0 THEN "unknown"
    ELSE NearestType(in, parentMap(in, id), fuel - 1)

ExpectedType == NearestType(fnIn, normalizeId(fnIn.pageId), MaxChain + 1)

TypeIsNearest == fnPc = "done" => fnOut.result.type = ExpectedType

\* C27: getPageType returns the type of the page itself when it is a
\* configured parent, otherwise the type of its nearest ancestor that is a
\* configured parent, and 'unknown' exactly when no ancestor in the fetched
\* data is configured; it terminates for every parent map, including a
\* cyclic one.
C27_NearestConfiguredAncestor == [](TypeIsNearest) /\ <>(fnPc = "done")

\* getPageType returns for every parent map.
GetPageTypeTerminates == <>(fnPc = "done")

\* The nearest configured page is the page itself or one of its first
\* maxDepth ancestors, or there is none.
WithinDepth ==
    ExpectedType = NearestType(fnIn, normalizeId(fnIn.pageId), maxDepth)

\* Within maxDepth parent links the returned type is that of the nearest
\* configured ancestor.
TypeIsNearestWithinDepth == fnPc = "done" /\ WithinDepth => TypeIsNearest

(***************************************************************************)
(* The list accumulator of blocksToHtml with look-ahead closing.           *)
(***************************************************************************)
ListKind(b) == IF b.type = "bulleted_list_item" THEN "ul" ELSE "ol"

\* The accumulator of the blocksToHtml activation f of call p.
Accumulator(p, f) == listContext[Scope(p, f.d)]

\* The activation f of call p is at a list item of the accumulator's kind.
AtItemOfKind(p, f) ==
    /\ f.i <= Len(f.blocks)
    /\ IsListItem(Block(f.blocks[f.i]))
    /\ ListKind(Block(f.blocks[f.i])) = Accumulator(p, f).type

\* In every blocksToHtml activation, between iterations: an open accumulator
\* means the current block is a list item of its kind.
AccumulatorMatches ==
    \A p \in Calls : \A j \in 1..Len(stack[p]) :
        stack[p][j].k = "loop" /\ Accumulator(p, stack[p][j]).type # "none"
            => AtItemOfKind(p, stack[p][j])

Count(s, x) == Cardinality({i \in 1..Len(s) : s[i] = x})

\* The marks of a list structure nest: an item only inside a list, a list
\* only outside every list, every list closed by its own end tag.
RECURSIVE Nested(_, _)
Nested(shape, open) ==
    IF shape = <<>> THEN open = "none"
    ELSE LET m == Head(shape) IN
         IF m \in {"ul", "ol"} THEN open = "none" /\ Nested(Tail(shape), m)
         ELSE IF m = "li" THEN open # "none" /\ Nested(Tail(shape), open)
         ELSE IF m \in {"/ul", "/ol"} THEN m = "/" \o open /\ Nested(Tail(shape), "none")
         ELSE Nested(Tail(shape), open)

\* Every list item of the page of call p is written once, inside one list.
ItemsInOneList(p) ==
    /\ Nested(ListShape(result[p]), "none")
    /\ Count(ListShape(result[p]), "li")
          = Cardinality({i \in 1..Len(roots[p]) : IsListItem(Block(roots[p][i]))})
    /\ \A i \in 1..Len(roots[p]) :
          IsListItem(Block(roots[p][i])) =>
              \A c \in Range(DocOrder(<<roots[p][i]>>)) : Count(result[p], c) = 1

\* C28: in blocksToHtml with look-ahead closing (page-detail and homepage),
\* whenever the list accumulator is open at the start of a loop iteration the
\* current block is a list item of the accumulator's kind; so the accumulator
\* is empty when a non-list block or a list item of the other kind is reached
\* and when the loop ends, and every list item is emitted in exactly one list.
C28_AccumulatorInvariant ==
    variant \in {"page", "home"} =>
        /\ AccumulatorMatches
        /\ \A p \in Calls : Returned(p) /\ FlatPage(roots[p]) => ItemsInOneList(p)

\* A call between two list items of one kind, the accumulator open.
C28_Witness ==
    /\ variant \in {"page", "home"}
    /\ \E p \in Calls :
          /\ stack[p] # <<>>
          /\ Top(stack[p]).k = "loop"
          /\ Top(stack[p]).i = 2
          /\ Accumulator(p, Top(stack[p])).type = "ul"
          /\ AtItemOfKind(p, Top(stack[p]))

(***************************************************************************)
(* The page-load handlers of the browser scripts: loadPage, loadDocPage,   *)
(* loadBlogPost and loadBlogPosts.  A document runs its handler on         *)
(* DOMContentLoaded and, where the script listens for it, again on every   *)
(* popstate; each run is a call that awaits its fetch.  The path of the    *)
(* document, and so whether getSlugFromUrl finds a slug, is the same for   *)
(* all calls: the scripts never push a history entry.                      *)
(***************************************************************************)
MaxLoads == 3

Handlers == {"loadPage", "loadDocPage", "loadBlogPost", "loadBlogPosts"}

\* window.addEventListener('popstate', ...)
ListensPopstate(handler) == handler # "loadBlogPosts"

\* const slug = getSlugFromUrl(); if (!slug) throw ...
NeedsSlug(handler) == handler # "loadBlogPosts"

\* What a call meets after its fetch was sent.
Outcomes(handler) ==
    {"rejected", "http404", "http500", "badJson", "rendered", "renderThrows"}
    \cup (IF handler = "loadPage" THEN {"redirect"} ELSE {})
    \cup (IF handler = "loadBlogPosts" THEN {"noPosts"} ELSE {})

\* style.display of the four elements as the document is delivered.
InitialDom == [loading |-> "", error |-> "none", content |-> "none", empty |-> "none"]

\* "Show loading state"
showLoading(handler, dom) ==
    [dom EXCEPT !.loading = "block", !.error = "none", !.content = "none",
                !.empty = IF handler = "loadBlogPosts" THEN "none" ELSE @]

\* "Hide loading and show content"
showContent(handler, dom) ==
    [dom EXCEPT !.loading = "none",
                !.content = IF handler \in {"loadDocPage", "loadBlogPosts"}
                            THEN "grid" ELSE "block"]

\* catch (error) { loadingEl.style.display = 'none'; errorEl.style.display = 'block' }
catchBlock(dom) ==
    [dom EXCEPT !.loading = "none", !.error = "block"]

LoadCall(pc, outcome) == [pc |-> pc, outcome |-> outcome]

\* The handler is called: it runs to its await, or to the end of its catch
\* block when there is no slug.
LoadStart ==
    /\ fnPc = "ready"
    /\ Len(fnOut.calls) < MaxLoads
    /\ fnOut.calls = <<>> \/ ListensPopstate(fnIn.handler)
    /\ IF NeedsSlug(fnIn.handler) /\ ~fnIn.slug
          THEN fnOut' = [fnOut EXCEPT
                           !.dom = catchBlock(@),
                           !.calls = Append(@, LoadCall("done", "noSlug"))]
          ELSE fnOut' = [fnOut EXCEPT
                           !.dom = showLoading(fnIn.handler, @),
                           !.calls = Append(@, LoadCall("fetch", "pending"))]
    /\ UNCHANGED <<fnIn, fnPc, notFn>>

\* The dom after the fetch of a call settled and the call ran to its end.
afterFetch(handler, dom, outcome) ==
    CASE outcome \in {"rejected", "http404", "http500", "badJson"} -> catchBlock(dom)
      [] outcome = "redirect" -> dom
      [] outcome = "rendered" -> showContent(handler, dom)
      [] outcome = "renderThrows" -> catchBlock(showContent(handler, dom))
      [] outcome = "noPosts" -> [dom EXCEPT !.loading = "none", !.empty = "block"]

\* The fetch of call k settles and the call runs to its end.
FetchSettles ==
    /\ fnPc = "ready"
    /\ \E k \in 1..Len(fnOut.calls) : \E outcome \in Outcomes(fnIn.handler) :
          /\ fnOut.calls[k].pc = "fetch"
          /\ fnOut' = [fnOut EXCEPT
                         !.dom = afterFetch(fnIn.handler, @, outcome),
                         !.shown = IF outcome = "rendered" THEN k ELSE @,
                         !.calls[k] = LoadCall("done", outcome)]
          /\ fnPc' = IF outcome = "redirect" THEN "unloaded" ELSE "ready"
    /\ UNCHANGED <<fnIn, notFn>>

InitLoad ==
    /\ variant = "page"
    /\ roots = [p \in Calls |-> <<>>]
    /\ failing = {}
    /\ active = {}
    /\ RenderIdle
    /\ SanIdle
    /\ RtIdle
    /\ BlkIdle
    /\ GabIdle
    /\ PrvIdle
    /\ SbmIdle
    /\ NavIdle
    /\ hasToggle = TRUE
    /\ hasNavLinks = TRUE
    /\ fnIn \in [handler : Handlers, slug : BOOLEAN]
    /\ fnOut = [dom |-> InitialDom, shown |-> 0, calls |-> <<>>]
    /\ fnPc = "ready"

NextLoad == LoadStart \/ FetchSettles

SpecLoad == InitLoad /\ [][NextLoad]_vars

Displayed(d) == d # "none"

\* How many of the loading, error and content elements are visible.
VisibleCount ==
    Cardinality({e \in {"loading", "error", "content"} : Displayed(fnOut.dom[e])})

\* Every call of the handler has settled, and there was one.
LoadsSettled ==
    /\ fnOut.calls # <<>>
    /\ \A k \in 1..Len(fnOut.calls) : fnOut.calls[k].pc = "done"

\* C29: after a page-load handler (loadPage, loadDocPage, loadBlogPost,
\* loadBlogPosts) settles, exactly one of the loading, error and content
\* elements is visible, in every outcome: missing slug, HTTP error, 404,
\* success, and an exception thrown while rendering the fetched page.
C29_OneElementVisible == LoadsSettled => VisibleCount = 1

\* The outcomes before the content element is shown, and a page that
\* rendered.
PlainOutcomes ==
    {"noSlug", "rejected", "http404", "http500", "badJson", "redirect", "rendered"}

\* One call with one of these outcomes leaves exactly one element visible.
OneElementVisibleSingle ==
    /\ Len(fnOut.calls) = 1
    /\ fnOut.calls[1].outcome \in PlainOutcomes
    => VisibleCount = 1

\* The call started last rendered its response.
LastRendered ==
    /\ LoadsSettled
    /\ fnOut.calls[Len(fnOut.calls)].outcome = "rendered"

\* C30: when a popstate event starts loadPage (or loadDocPage) again while an
\* earlier call is still awaiting its fetch, the content finally displayed is
\* that of the most recently started load, whatever order the two responses
\* arrive in; an older response never overwrites a newer one.
C30_LatestLoadWins ==
    fnIn.handler \in {"loadPage", "loadDocPage"} /\ LastRendered
        => fnOut.shown = Len(fnOut.calls)

\* The content displayed is the response of a call that rendered.
ShownIsRendered ==
    fnOut.shown # 0 => fnOut.calls[fnOut.shown].outcome = "rendered"

====
